---- MODULE Spec2Model ----
(***************************************************************************)
(* A model of teonet-go/webtransport-go: the HTTP/3 wire codecs (h3), the  *)
(* response writer, the WebTransport session and its stream wrappers, and  *)
(* the per-connection orchestrator Server.handleSession.                   *)
(*                                                                         *)
(* Bytes are naturals 0..255, byte strings are sequences of bytes.  A      *)
(* reader is a record [chunks, fin]: the byte strings the transport hands  *)
(* over one Read call at a time, and whether the stream ends after them.   *)
(***************************************************************************)
EXTENDS Integers, Sequences, FiniteSets, TLC

\* ------------------------------------------------------------------ bounds

\* The number of calls on the response writer, the session and its streams
\* that one handler run makes.
MaxCalls == 4
\* The number of streams and datagrams of the peer that reach a session.
MaxArrivals == 1

\* The longest payload, and the largest Length field, of a frame handed to
\* Frame.Write.
MaxPayload == 2

\* --------------------------------------------------------------- constants

FRAME_DATA == 0
FRAME_HEADERS == 1
FRAME_SETTINGS == 4
FRAME_GOAWAY == 7
FRAME_WEBTRANSPORT_STREAM == 65

STREAM_CONTROL == 0
STREAM_PUSH == 1
STREAM_QPACK_ENCODER == 2
STREAM_QPACK_DECODER == 3
STREAM_WEBTRANSPORT_UNI_STREAM == 84

SETTINGS_MAX_FIELD_SECTION_SIZE == 6
SETTINGS_QPACK_BLOCKED_STREAMS == 7
H3_DATAGRAM_05 == 16765559
ENABLE_WEBTRANSPORT == 727725890

StatusOK == 200
StatusBadRequest == 400

\* ------------------------------------------------------------ byte strings

RECURSIVE Flatten(_)
\* The concatenation of a sequence of byte strings.
Flatten(ss) == IF ss = <<>> THEN <<>> ELSE Head(ss) \o Flatten(Tail(ss))

\* s without its first n elements.
DropN(s, n) == SubSeq(s, n + 1, Len(s))

\* s is a prefix of t.
IsPrefix(s, t) == Len(s) <= Len(t) /\ SubSeq(t, 1, Len(s)) = s

\* ------------------------------------------------------------------ varint

\* quicvarint.Len: the length of the shortest encoding of v.
VarintLen(v) ==
    IF v < 64 THEN 1
    ELSE IF v < 16384 THEN 2
    ELSE IF v < 1073741824 THEN 4
    ELSE 8

\* quicvarint.Append(nil, v): the shortest encoding, big-endian, the two high
\* bits of the first byte giving the length.
VarintAppend(v) ==
    IF v < 64 THEN << v >>
    ELSE IF v < 16384 THEN << 64 + (v \div 256), v % 256 >>
    ELSE IF v < 1073741824
         THEN << 128 + (v \div 16777216), (v \div 65536) % 256,
                 (v \div 256) % 256, v % 256 >>
    ELSE << 192, 0, 0, 0, (v \div 16777216) % 256, (v \div 65536) % 256,
            (v \div 256) % 256, v % 256 >>

\* ----------------------------------------------------------------- readers

Reader(chunks, fin) == [chunks |-> chunks, fin |-> fin]

\* The bytes a reader still holds.
Remaining(r) == Flatten(r.chunks)

RECURSIVE DropChunks(_, _)
\* The chunks left after n bytes were consumed from the front.
DropChunks(chunks, n) ==
    IF n = 0 \/ chunks = <<>> THEN chunks
    ELSE IF n >= Len(Head(chunks)) THEN DropChunks(Tail(chunks), n - Len(Head(chunks)))
    ELSE << DropN(Head(chunks), n) >> \o Tail(chunks)

\* One io.Reader.Read(p) with len(p) = n: at most n bytes, and only what the
\* transport has in its current chunk.  err is "nil", "EOF" (the stream has
\* ended) or "block" (nothing there yet and the stream is still open).
ReadOnce(r, n) ==
    IF r.chunks = <<>>
    THEN [err |-> IF r.fin THEN "EOF" ELSE IF n = 0 THEN "nil" ELSE "block",
          data |-> <<>>, r |-> r]
    ELSE LET k == IF n < Len(Head(r.chunks)) THEN n ELSE Len(Head(r.chunks))
         IN  [err |-> "nil", data |-> SubSeq(Head(r.chunks), 1, k),
              r |-> [r EXCEPT !.chunks = DropChunks(r.chunks, k)]]

\* quicvarint.Read over quicvarint.NewReader(r): one byte at a time, so it
\* crosses chunk boundaries and never reads past the integer.
VarintRead(r) ==
    LET bytes == Remaining(r)
        need  == IF bytes = <<>> THEN 1
                 ELSE IF bytes[1] < 64 THEN 1
                 ELSE IF bytes[1] < 128 THEN 2
                 ELSE IF bytes[1] < 192 THEN 4 ELSE 8
        val   == IF need = 1 THEN bytes[1]
                 ELSE IF need = 2 THEN (bytes[1] % 64) * 256 + bytes[2]
                 ELSE IF need = 4
                      THEN (bytes[1] % 64) * 16777216 + bytes[2] * 65536
                           + bytes[3] * 256 + bytes[4]
                 ELSE bytes[5] * 16777216 + bytes[6] * 65536 + bytes[7] * 256 + bytes[8]
    IN  IF Len(bytes) < need
        THEN [err |-> IF r.fin THEN "EOF" ELSE "block", val |-> 0, n |-> 0,
              r |-> [r EXCEPT !.chunks = <<>>]]
        ELSE [err |-> "nil", val |-> val, n |-> need,
              r |-> [r EXCEPT !.chunks = DropChunks(r.chunks, need)]]

\* ------------------------------------------------------------------ frames

Frame(t, sid, l, data) == [Type |-> t, SessionID |-> sid, Length |-> l, Data |-> data]

ZeroFrame == Frame(0, 0, 0, <<>>)

\* make([]byte, n): n zero bytes.
Zeros(n) == [i \in 1..n |-> 0]

\* Frame.Write: the type, then the session id (WEBTRANSPORT_STREAM) or the
\* Length field, then Data, handed to the writer in one Write call.
FrameWrite(f) ==
    VarintAppend(f.Type)
    \o (IF f.Type = FRAME_WEBTRANSPORT_STREAM
        THEN VarintAppend(f.SessionID)
        ELSE VarintAppend(f.Length))
    \o f.Data

\* Frame.Read: two varints, then for every type but WEBTRANSPORT_STREAM a
\* buffer of l bytes filled by ONE Read call, whose error is the result.
FrameRead(r) ==
    LET t == VarintRead(r)
        l == VarintRead(t.r)
    IN  IF t.err # "nil" THEN [err |-> t.err, f |-> ZeroFrame, r |-> t.r]
        ELSE IF l.err # "nil" THEN [err |-> l.err, f |-> ZeroFrame, r |-> l.r]
        ELSE IF t.val = FRAME_WEBTRANSPORT_STREAM
        THEN [err |-> "nil", f |-> Frame(t.val, l.val, 0, <<>>), r |-> l.r]
        ELSE LET rd == ReadOnce(l.r, l.val)
             IN  [err |-> rd.err,
                  f |-> Frame(t.val, 0, l.val,
                              rd.data \o Zeros(l.val - Len(rd.data))),
                  r |-> rd.r]

\* ---------------------------------------------------------- stream headers

StreamHeader(t, id) == [Type |-> t, ID |-> id]

\* StreamHeader.Read: the type, and for the types that carry one the id;
\* a type it does not know is an error of its own.
StreamHeaderRead(r) ==
    LET t == VarintRead(r)
        l == VarintRead(t.r)
    IN  IF t.err # "nil" THEN [err |-> t.err, h |-> StreamHeader(0, 0), r |-> t.r]
        ELSE IF t.val \in {STREAM_CONTROL, STREAM_QPACK_ENCODER, STREAM_QPACK_DECODER}
        THEN [err |-> "nil", h |-> StreamHeader(t.val, 0), r |-> t.r]
        ELSE IF t.val \in {STREAM_PUSH, STREAM_WEBTRANSPORT_UNI_STREAM}
        THEN IF l.err # "nil"
             THEN [err |-> l.err, h |-> StreamHeader(t.val, 0), r |-> l.r]
             ELSE [err |-> "nil", h |-> StreamHeader(t.val, l.val), r |-> l.r]
        ELSE [err |-> "unknown stream type", h |-> StreamHeader(t.val, 0), r |-> t.r]

\* StreamHeader.Write: the bytes handed to the writer, or an error.
StreamHeaderWrite(h) ==
    IF h.Type \in {STREAM_CONTROL, STREAM_QPACK_ENCODER, STREAM_QPACK_DECODER}
    THEN [err |-> "nil", bytes |-> VarintAppend(h.Type)]
    ELSE IF h.Type \in {STREAM_PUSH, STREAM_WEBTRANSPORT_UNI_STREAM}
    THEN [err |-> "nil", bytes |-> VarintAppend(h.Type) \o VarintAppend(h.ID)]
    ELSE [err |-> "unknown stream type", bytes |-> <<>>]

\* ---------------------------------------------------------------- settings

\* The orders in which a range over the map s may visit its keys.
KeyOrders(s) ==
    { o \in [1..Cardinality(DOMAIN s) -> DOMAIN s] :
        \A i, j \in DOMAIN o : i # j => o[i] # o[j] }

RECURSIVE SumLen(_, _)
SumLen(s, o) ==
    IF o = <<>> THEN 0
    ELSE VarintLen(Head(o)) + VarintLen(s[Head(o)]) + SumLen(s, Tail(o))

\* SettingsMap.ToFrame, the map visited in order o.
ToFrame(s, o) ==
    Frame(FRAME_SETTINGS, 0, SumLen(s, o),
          Flatten([i \in DOMAIN o |-> VarintAppend(o[i]) \o VarintAppend(s[o[i]])]))

\* The largest Length FromFrame takes: 8*(1<<10).
SettingsMaxLength == 8192

\* A map without settings.
EmptySettings == [id \in { } |-> 0]

RECURSIVE FromPairsLastWins(_, _)
\* The loop of FromFrame without the check for a setting that is there
\* already.
FromPairsLastWins(s, b) ==
    IF b = << >> THEN [err |-> "nil", s |-> s]
    ELSE LET id  == VarintRead(Reader(<< b >>, TRUE))
             val == VarintRead(id.r)
         IN  IF id.err # "nil" THEN [err |-> id.err, s |-> s]
             ELSE IF val.err # "nil" THEN [err |-> val.err, s |-> s]
             ELSE FromPairsLastWins(
                      [k \in DOMAIN s \cup { id.val } |->
                           IF k = id.val THEN val.val ELSE s[k]],
                      Remaining(val.r))

\* FromFrame taking the last value of a repeated setting.
FromFrameLastWins(s, f) ==
    IF f.Length > SettingsMaxLength THEN [err |-> "size", s |-> s]
    ELSE FromPairsLastWins(s, f.Data)

RECURSIVE FromPairs(_, _)
\* The loop of SettingsMap.FromFrame over the bytes b left of f.Data: an id
\* and a value are read, the id must not be in the map yet.
FromPairs(s, b) ==
    IF b = << >> THEN [err |-> "nil", s |-> s]
    ELSE LET id  == VarintRead(Reader(<< b >>, TRUE))
             val == VarintRead(id.r)
         IN  IF id.err # "nil" THEN [err |-> id.err, s |-> s]
             ELSE IF val.err # "nil" THEN [err |-> val.err, s |-> s]
             ELSE IF id.val \in DOMAIN s THEN [err |-> "duplicate", s |-> s]
             ELSE FromPairs(
                      [k \in DOMAIN s \cup { id.val } |->
                           IF k = id.val THEN val.val ELSE s[k]],
                      Remaining(val.r))

\* SettingsMap.FromFrame on the map s: the error, and the map as the call
\* leaves it.
FromFrame(s, f) ==
    IF f.Length > SettingsMaxLength THEN [err |-> "size", s |-> s]
    ELSE FromPairs(s, f.Data)

\* The settings the server announces.
ServerSettings == [id \in {H3_DATAGRAM_05, ENABLE_WEBTRANSPORT} |-> 1]

\* ------------------------------------------------------------------- QPACK

Field(n, v) == [Name |-> n, Value |-> v]

\* The field lines of the model, each encoded as its 1-based index in this
\* table (as QPACK encodes a static-table hit); byte 0 is no field line.
FieldTable ==
    << Field(":method", "CONNECT"), Field(":method", "GET"),
       Field(":protocol", "webtransport"), Field(":protocol", "websocket"),
       Field(":authority", "example.com"), Field(":authority", "bad host"),
       Field(":path", "/chat"), Field(":path", "chat"), Field(":path", "/%zz"),
       Field("origin", "https://example.com"),
       Field("origin", "https://evil.example"),
       Field("origin", "https://bad host"),
       Field("content-length", "abc"),
       Field(":scheme", "https"),
       Field("sec-webtransport-http3-draft", "draft02"),
       Field(":status", "99"), Field(":status", "100"), Field(":status", "199"),
       Field(":status", "200"), Field(":status", "204"), Field(":status", "304"),
       Field(":status", "400"), Field(":status", "404") >>

FieldIndex(fld) == CHOOSE i \in DOMAIN FieldTable : FieldTable[i] = fld

\* The header block prefix (required insert count, base) the encoder writes
\* before the first field line.
QpackPrefix == << 0, 0 >>

\* qpack.Encoder.WriteField for each field of flds, into one buffer.
QpackEncode(flds) == QpackPrefix \o [i \in DOMAIN flds |-> FieldIndex(flds[i])]

\* qpack.Decoder.DecodeFull.
DecodeFull(data) ==
    IF Len(data) < 2 \/ SubSeq(data, 1, 2) # QpackPrefix
       \/ \E i \in 3..Len(data) : data[i] \notin DOMAIN FieldTable
    THEN [err |-> "qpack", hfs |-> <<>>]
    ELSE [err |-> "nil", hfs |-> [i \in 1..(Len(data) - 2) |-> FieldTable[data[i + 2]]]]

\* strconv.Itoa on the status codes of the model.
Itoa(n) ==
    CASE n = 99 -> "99" [] n = 100 -> "100" [] n = 199 -> "199"
      [] n = 200 -> "200" [] n = 204 -> "204" [] n = 304 -> "304"
      [] n = 400 -> "400" [] n = 404 -> "404"

\* ----------------------------------------------------------------- request

\* qpack.HeaderField.IsPseudo: the name starts with ':'.
IsPseudo(name) ==
    name \in {":method", ":protocol", ":authority", ":path", ":scheme", ":status"}

RECURSIVE LastValue(_, _)
\* The value the header loop leaves in a variable assigned on every field
\* named name: the last such field's value, "" when there is none.
LastValue(hfs, name) ==
    IF hfs = <<>> THEN ""
    ELSE IF hfs[Len(hfs)].Name = name THEN hfs[Len(hfs)].Value
    ELSE LastValue(SubSeq(hfs, 1, Len(hfs) - 1), name)

\* The fields the loop adds to httpHeaders.
HttpHeaders(hfs) ==
    SelectSeq(hfs, LAMBDA h :
        h.Name \notin {":path", ":method", ":authority", ":protocol", "content-length"}
        /\ ~IsPseudo(h.Name))

\* http.Header.Get: the first value stored for the name, "" when none.
HeaderGet(hdrs, name) ==
    IF \E i \in DOMAIN hdrs : hdrs[i].Name = name
    THEN hdrs[CHOOSE i \in DOMAIN hdrs :
                /\ hdrs[i].Name = name
                /\ \A j \in 1..(i - 1) : hdrs[j].Name # name].Value
    ELSE ""

\* What net/url finds in the strings of the model.
HostInvalid(s) == s \in {"bad host", "https://bad host"}
Rooted(s) == s \in {"/chat", "/%zz"}
BadEscape(s) == s = "/%zz"

\* url.ParseRequestURI("https://" + authority + path) fails on a host with
\* an invalid character and on a path with a bad escape; an empty host and
\* an empty path both parse.
ParseConnectURI(authority, path) ==
    IF HostInvalid(authority) \/ (Rooted(path) /\ BadEscape(path))
    THEN "url" ELSE "nil"

\* url.ParseRequestURI(path) wants a non-empty, rooted, well-escaped path.
ParsePathURI(path) ==
    IF path = "" \/ ~Rooted(path) \/ BadEscape(path) THEN "url" ELSE "nil"

\* strconv.ParseInt(s, 10, 64) on the strings of the model.
ParseIntErr(s) == IF s = "abc" THEN "syntax" ELSE "nil"

\* h3.RequestFromHeaders.
RequestFromHeaders(hfs) ==
    LET path      == LastValue(hfs, ":path")
        authority == LastValue(hfs, ":authority")
        method    == LastValue(hfs, ":method")
        proto     == LastValue(hfs, ":protocol")
        clen      == LastValue(hfs, "content-length")
        urlErr    == IF method = "CONNECT" THEN ParseConnectURI(authority, path)
                     ELSE IF path = "" \/ authority = "" \/ method = ""
                          THEN "ErrPathAuthorityMethodEmpty"
                     ELSE ParsePathURI(path)
        err       == IF urlErr # "nil" THEN urlErr
                     ELSE IF clen # "" THEN ParseIntErr(clen)
                     ELSE "nil"
    IN  [err |-> err,
         Method |-> method, Host |-> authority, RequestURI |-> path,
         Header |-> HttpHeaders(hfs),
         protocol |-> IF err # "nil" THEN proto
                      ELSE IF proto = "" THEN "h3" ELSE proto]

NoRequest ==
    [err |-> "none", Method |-> "", Host |-> "", RequestURI |-> "",
     Header |-> <<>>, protocol |-> ""]

\* url.Parse(origin) and the Host of its result.
OriginHost(origin) ==
    IF HostInvalid(origin) THEN [err |-> "url", host |-> ""]
    ELSE IF origin = "https://example.com" THEN [err |-> "nil", host |-> "example.com"]
    ELSE IF origin = "https://evil.example" THEN [err |-> "nil", host |-> "evil.example"]
    ELSE [err |-> "nil", host |-> ""]

\* validateOrigin letting an origin through when it does not parse.
validateOriginLax(allowed, origin) ==
    allowed.isNil \/ OriginHost(origin).err # "nil"
    \/ OriginHost(origin).host \in allowed.hosts

\* Server.validateOrigin; allowed is [isNil, hosts].
validateOrigin(allowed, origin) ==
    IF allowed.isNil THEN TRUE
    ELSE IF OriginHost(origin).err # "nil" THEN FALSE
    ELSE OriginHost(origin).host \in allowed.hosts

\* ----------------------------------------------------------- QUIC streams

\* The sending side of a QUIC stream: closed by Close, failed once a Write
\* has failed; calls are the byte strings handed to Write, each with
\* its result, wire the bytes the peer gets.
NewStream == [closed |-> FALSE, failed |-> FALSE, calls |-> <<>>, wire |-> <<>>]

\* The results a Write on st can have: it succeeds only on a stream that is
\* neither closed nor failed, and may fail on any.
Outcomes(st) == IF st.closed \/ st.failed THEN {FALSE} ELSE BOOLEAN

\* quic.SendStream.Write(b) with result ok; the call is kept with whether the
\* stream was closed already when it was made.
StreamWrite(st, b, ok) ==
    [st EXCEPT !.calls = Append(@, [b |-> b, ok |-> ok, closed |-> st.closed]),
               !.wire = IF ok THEN @ \o b ELSE @,
               !.failed = @ \/ ~ok]

\* quic.SendStream.Close.
StreamClose(st) == [st EXCEPT !.closed = TRUE]

\* --------------------------------------------------------- response writer

\* http.Header.Add stores under the canonical key; WriteHeader lower-cases it.
CanonicalKey(k) ==
    IF k = "sec-webtransport-http3-draft" THEN "Sec-Webtransport-Http3-Draft" ELSE k
ToLower(k) ==
    IF k = "Sec-Webtransport-Http3-Draft" THEN "sec-webtransport-http3-draft" ELSE k

\* h3.NewResponseWriter: nothing buffered, no status, an empty header.
NewResponseWriter ==
    [status |-> 0, headerWritten |-> FALSE, dataStreamUsed |-> FALSE,
     header |-> <<>>, buf |-> <<>>, err |-> FALSE]

\* rw.Header().Add(k, v).
HeaderAdd(w, k, v) == [w EXCEPT !.header = Append(@, Field(CanonicalKey(k), v))]

\* bufio.Writer.Write(b): nothing once a flush has failed, else buffered
\* (the buffer of 4096 bytes is never filled by the writes of the model).
BufWrite(w, b) == IF w.err THEN w ELSE [w EXCEPT !.buf = @ \o b]

\* ResponseWriter.Flush on the pair ws = [w, st] of the writer and its
\* stream: one Write of the buffer, whose failure sticks to the writer.
Flush(ws, ok) ==
    IF ws.w.err \/ ws.w.buf = <<>> THEN ws
    ELSE [w  |-> [ws.w EXCEPT !.buf = IF ok THEN <<>> ELSE @, !.err = ~ok],
          st |-> StreamWrite(ws.st, ws.w.buf, ok)]

\* The HEADERS frame WriteHeader builds for status.
HeadersFrame(w, status) ==
    LET payload == QpackEncode(
            << Field(":status", Itoa(status)) >>
            \o [i \in DOMAIN w.header |->
                    Field(ToLower(w.header[i].Name), w.header[i].Value)])
    IN  Frame(FRAME_HEADERS, 0, Len(payload), payload)

\* WriteHeader without the headerWritten check and latch.
WriteHeaderNoLatch(ws, status, ok) ==
    LET w1 == [ws.w EXCEPT !.status = status]
    IN  [ws EXCEPT !.w = BufWrite(w1, FrameWrite(HeadersFrame(w1, status)))]

\* WriteHeader latching on every status, 1xx too.
WriteHeaderLatchAll(ws, status, ok) ==
    IF ws.w.headerWritten THEN ws
    ELSE LET w1 == [ws.w EXCEPT !.headerWritten = TRUE, !.status = status]
         IN  [ws EXCEPT !.w = BufWrite(w1, FrameWrite(HeadersFrame(w1, status)))]

\* ResponseWriter.WriteHeader.
WriteHeader(ws, status, ok) ==
    IF ws.w.headerWritten THEN ws
    ELSE LET latch == status < 100 \/ status >= 200
             w1 == [ws.w EXCEPT !.headerWritten = latch, !.status = status]
             w2 == BufWrite(w1, FrameWrite(HeadersFrame(w1, status)))
         IN  IF latch THEN [ws EXCEPT !.w = w2]
             ELSE Flush([ws EXCEPT !.w = w2], ok)

\* A body allowed whatever the status.
bodyAllowedAlways(status) == TRUE

\* bodyAllowedForStatus.
bodyAllowedForStatus(status) ==
    ~(\/ (status >= 100 /\ status <= 199)
      \/ status = 204
      \/ status = 304)

\* Write without the implicit WriteHeader(200).
WriteNoHeader(ws, p) ==
    [ws |-> [ws EXCEPT !.w = BufWrite(@, FrameWrite(Frame(FRAME_DATA, 0, Len(p), p)))],
     n |-> Len(p) + 2, err |-> "nil"]

\* ResponseWriter.Write(p): the writer and stream after the call, and what
\* the call returns.
Write(ws, p) ==
    LET ws1 == IF ~ws.w.headerWritten THEN WriteHeader(ws, 200, FALSE) ELSE ws
    IN  IF ~bodyAllowedForStatus(ws1.w.status)
        THEN [ws |-> ws1, n |-> 0, err |-> "ErrBodyNotAllowed"]
        ELSE [ws |-> [ws1 EXCEPT !.w = BufWrite(@, FrameWrite(Frame(FRAME_DATA, 0, Len(p), p)))],
              n |-> IF ws1.w.err THEN 0 ELSE Len(FrameWrite(Frame(FRAME_DATA, 0, Len(p), p))),
              err |-> IF ws1.w.err THEN "io" ELSE "nil"]

\* DataStream handing the stream over with the buffer as it is.
DataStreamNoFlush(ws, ok) == [ws EXCEPT !.w.dataStreamUsed = TRUE]

\* ResponseWriter.DataStream.
DataStream(ws, ok) == Flush([ws EXCEPT !.w.dataStreamUsed = TRUE], ok)

\* ------------------------------------------------------------------- state

VARIABLES
    pc,              \* where handleSession is
    allowedOrigins,  \* Server.AllowedOrigins: [isNil, hosts]
    ioLog,           \* the calls handleSession has made on the connection, in order
    srvCtrl,         \* serverControlStream
    clientCtrl,      \* clientControlStream, a reader
    reqIn,           \* the receiving side of requestStream, a reader
    sessionId,       \* requestStream.StreamID()
    req,             \* the request RequestFromHeaders returned
    rw,              \* the ResponseWriter
    reqStream,       \* the sending side of requestStream
    ctxDone,         \* the session's context is cancelled
    handlerInvoked,  \* s.ServeHTTP was called
    watcher,         \* the goroutine reading requestStream: none, reading, readErr, done
    ncalls,          \* the calls the handler has made so far
    rwRet,           \* the handler's last call and what it returned: [op, n, err]
    accepted,        \* Session.AcceptSession has been called
    out,             \* the streams openStream and openUniStream returned, in order,
                     \* and the datagrams SendDatagram handed to QUIC (dg)
    inq,             \* the streams the peer has opened and no call has accepted yet,
                     \* and the number n of streams and datagrams that have arrived
    got,             \* the streams AcceptStream and AcceptUniStream returned, each
                     \* with the bytes the peer had sent on it (wire) and, for
                     \* the unidirectional ones, the results of the reads (rets)
    acc,             \* the task calling Session.AcceptStream; late: the session's
                     \* context was cancelled already when the call was made
    accUni,          \* the task calling Session.AcceptUniStream(ctx)
    rcv,             \* the task calling Session.ReceiveDatagram(ctx), and its helper;
                     \* lateCtx: ctx was cancelled already when the call was made,
                     \* hasDg, raw: the datagram the helper received for this call
    ownCtxDone,      \* a context of the caller's own is cancelled
    dgq,             \* the datagrams received and not yet handed over
    srv,             \* Server.Run: where it is (run), the error it returned, its
                     \* context, the listener (none, open or closed; broken; the
                     \* connections waiting in it), the task that closes the
                     \* listener, and the number of handleSession tasks started
    codec            \* a frame on its way through Frame.Write and Frame.Read: the
                     \* frame f, the bytes written as a reader delivers them (r),
                     \* and what Frame.Read returned (res); and a settings map on
                     \* its way through ToFrame and FromFrame (sm): the map m or
                     \* the frame f it starts from, and what FromFrame returned
                     \* (res); no step of the server touches it

orchVars == << srv, codec, pc, allowedOrigins, ioLog, srvCtrl, clientCtrl, reqIn, sessionId,
               req, handlerInvoked, watcher >>
respVars == << rw, reqStream, ctxDone, ncalls, rwRet >>
streamVars == << out, inq, got, acc, accUni, rcv, ownCtxDone, dgq >>
vars == << orchVars, respVars, accepted, streamVars >>

\* ------------------------------------------------------------------ inputs

\* Stream ids a client-initiated bidirectional stream can have (id % 4 = 0),
\* with one- and two-byte varints of the id and of its quarter.
SessionIds == {0, 4, 64, 260}

\* Server.AllowedOrigins: nil, empty but not nil, or one host.
AllowLists ==
    { [isNil |-> TRUE, hosts |-> {}], [isNil |-> FALSE, hosts |-> {}],
      [isNil |-> FALSE, hosts |-> {"example.com"}] }

\* The settings a client announces, as the bytes of its SETTINGS frame.
ClientSettingsBytes ==
    FrameWrite(ToFrame(ServerSettings, << H3_DATAGRAM_05, ENABLE_WEBTRANSPORT >>))

\* What a client may send on its control stream: the stream type and a
\* SETTINGS frame (in one piece or two), a GOAWAY frame first, a stream that
\* ends after the type, one that ends at once, one that stays silent.
ClientControlStreams ==
    { Reader(<< << STREAM_CONTROL >> \o ClientSettingsBytes >>, FALSE),
      Reader(<< << STREAM_CONTROL >>, ClientSettingsBytes >>, FALSE),
      Reader(<< << STREAM_CONTROL >> \o FrameWrite(Frame(FRAME_GOAWAY, 0, 1, << 0 >>)) >>, FALSE),
      Reader(<< << STREAM_CONTROL >> >>, TRUE),
      Reader(<< >>, TRUE),
      Reader(<< >>, FALSE) }

\* The alternatives for one header of a request: absent, or one of values.
Opt(name, values) == { << >> } \cup { << Field(name, v) >> : v \in values }

\* The header lists a client may send.
RequestHeaders ==
    { m \o pr \o a \o pa \o o :
        m  \in Opt(":method", {"CONNECT", "GET"}),
        pr \in Opt(":protocol", {"webtransport", "websocket"}),
        a  \in Opt(":authority", {"example.com", "bad host"}),
        pa \in Opt(":path", {"/chat", "chat", "/%zz"}),
        o  \in Opt("origin", {"https://example.com", "https://evil.example",
                              "https://bad host"}) }

\* The HEADERS frame carrying hfs.
RequestFrame(hfs) ==
    FrameWrite(Frame(FRAME_HEADERS, 0, Len(QpackEncode(hfs)), QpackEncode(hfs)))

\* The request of the CONNECT acceptance scenario.
GoodRequest ==
    << Field(":method", "CONNECT"), Field(":scheme", "https"),
       Field(":authority", "example.com"), Field(":path", "/chat"),
       Field(":protocol", "webtransport"), Field("origin", "https://example.com") >>

\* What a client may send on the request stream: a HEADERS frame with any
\* of the header lists; the scenario's request in one piece, in two pieces,
\* followed by further bytes, and with a bad content-length; a DATA frame; a header block that does not
\* decode; a stream that ends at once.
RequestStreams ==
    { Reader(<< RequestFrame(hfs) >>, FALSE) : hfs \in RequestHeaders }
    \cup
    { Reader(<< RequestFrame(GoodRequest) >>, FALSE),
      Reader(<< SubSeq(RequestFrame(GoodRequest), 1, 5),
                DropN(RequestFrame(GoodRequest), 5) >>, FALSE),
      Reader(<< RequestFrame(GoodRequest), << 1, 2 >> >>, FALSE),
      Reader(<< RequestFrame(GoodRequest \o << Field("content-length", "abc") >>) >>, FALSE),
      Reader(<< FrameWrite(Frame(FRAME_DATA, 0, 1, << 7 >>)) >>, FALSE),
      Reader(<< FrameWrite(Frame(FRAME_HEADERS, 0, 3, << 0, 0, 0 >>)) >>, FALSE),
      Reader(<< >>, TRUE) }

Op(name, b) == [op |-> name, b |-> b]

\* ------------------------------------------------------------ session calls

Ret(op, n, err) == [op |-> op, n |-> n, err |-> err]

\* The writer and its stream as the pair the response-writer calls work on.
WS == [w |-> rw, st |-> reqStream]

\* AcceptSession leaving the response in the buffer.
AcceptSessionNoFlush(ws, ok) == WriteHeader(ws, StatusOK, ok)

\* Session.AcceptSession on ws.
AcceptSessionOn(ws, ok) == Flush(WriteHeader(ws, StatusOK, ok), ok)

\* Session.CloseSession on ws: s.cancel() is the caller's ctxDone' = TRUE,
\* s.Close() closes the request stream.
CloseSessionOn(ws) == [ws EXCEPT !.st = StreamClose(@)]

\* RejectSession closing the session before it writes the status.
RejectSessionCloseFirst(ws, errorCode, ok) ==
    Flush(WriteHeader(CloseSessionOn(ws), errorCode, ok), ok)

\* Session.RejectSession on ws.
RejectSessionOn(ws, errorCode, ok) ==
    CloseSessionOn(Flush(WriteHeader(ws, errorCode, ok), ok))

\* ------------------------------------------------------------ handleSession

\* sess.OpenUniStream() for the server control stream.
OpenServerControlStream ==
    /\ pc = "start"
    /\ \E ok \in BOOLEAN : pc' = IF ok THEN "writeHeader" ELSE "dropped"
    /\ ioLog' = Append(ioLog, Op("OpenUniStream", << >>))
    /\ UNCHANGED << srv, codec, allowedOrigins, srvCtrl, clientCtrl, reqIn, sessionId, req,
                    handlerInvoked, watcher, respVars, accepted, streamVars >>

\* streamHeader.Write(serverControlStream); its result is not looked at.
WriteControlHeader ==
    /\ pc = "writeHeader"
    /\ LET b == StreamHeaderWrite(StreamHeader(STREAM_CONTROL, 0)).bytes
       IN  /\ \E ok \in Outcomes(srvCtrl) : srvCtrl' = StreamWrite(srvCtrl, b, ok)
           /\ ioLog' = Append(ioLog, Op("Write", b))
    /\ pc' = "writeSettings"
    /\ UNCHANGED << srv, codec, allowedOrigins, clientCtrl, reqIn, sessionId, req,
                    handlerInvoked, watcher, respVars, accepted, streamVars >>

\* handleSession going on to accept the client's stream with no SETTINGS sent.
SkipServerSettings ==
    /\ pc = "writeSettings"
    /\ pc' = "acceptControl"
    /\ UNCHANGED << srv, codec, allowedOrigins, ioLog, srvCtrl, clientCtrl, reqIn, sessionId, req,
                    handlerInvoked, watcher, respVars, accepted, streamVars >>

\* settingsFrame.Write(serverControlStream); its result is not looked at.
WriteServerSettings ==
    /\ pc = "writeSettings"
    /\ \E o \in KeyOrders(ServerSettings) :
         LET b == FrameWrite(ToFrame(ServerSettings, o))
         IN  /\ \E ok \in Outcomes(srvCtrl) : srvCtrl' = StreamWrite(srvCtrl, b, ok)
             /\ ioLog' = Append(ioLog, Op("Write", b))
    /\ pc' = "acceptControl"
    /\ UNCHANGED << srv, codec, allowedOrigins, clientCtrl, reqIn, sessionId, req,
                    handlerInvoked, watcher, respVars, accepted, streamVars >>

\* sess.AcceptUniStream(context.Background()).
AcceptClientControlStream ==
    /\ pc = "acceptControl"
    /\ ioLog' = Append(ioLog, Op("AcceptUniStream", << >>))
    /\ \/ /\ \E r \in ClientControlStreams : clientCtrl' = r
          /\ pc' = "readSettings"
       \/ /\ pc' = "dropped"
          /\ UNCHANGED clientCtrl
    /\ UNCHANGED << srv, codec, allowedOrigins, srvCtrl, reqIn, sessionId, req,
                    handlerInvoked, watcher, respVars, accepted, streamVars >>

\* The stream type is read and dropped (its error too), then one frame is
\* read, which has to be a SETTINGS frame.
ReadClientSettings ==
    /\ pc = "readSettings"
    /\ LET t  == VarintRead(clientCtrl)
           fr == FrameRead(t.r)
       IN  /\ clientCtrl' = fr.r
           /\ pc' = IF fr.err = "block" THEN "blocked"
                    ELSE IF fr.err # "nil" \/ fr.f.Type # FRAME_SETTINGS THEN "dropped"
                    ELSE "acceptRequest"
    /\ ioLog' = Append(ioLog, Op("ReadSettings", << >>))
    /\ UNCHANGED << srv, codec, allowedOrigins, srvCtrl, reqIn, sessionId, req,
                    handlerInvoked, watcher, respVars, accepted, streamVars >>

\* sess.AcceptStream(ctx) and the session's context.
AcceptRequestStream ==
    /\ pc = "acceptRequest"
    /\ ioLog' = Append(ioLog, Op("AcceptStream", << >>))
    /\ \/ /\ \E r \in RequestStreams : reqIn' = r
          /\ \E id \in SessionIds : sessionId' = id
          /\ pc' = "readHeaders"
       \/ /\ pc' = "dropped"
          /\ UNCHANGED << reqIn, sessionId >>
    /\ UNCHANGED << srv, codec, allowedOrigins, srvCtrl, clientCtrl, req,
                    handlerInvoked, watcher, respVars, accepted, streamVars >>

\* The HEADERS frame is read and decoded to the request; on any failure the
\* context is cancelled and the request stream closed.  On success the
\* response writer and the Session are made.
ReadRequest ==
    /\ pc = "readHeaders"
    /\ LET fr  == FrameRead(reqIn)
           dec == DecodeFull(fr.f.Data)
           rq  == RequestFromHeaders(dec.hfs)
           bad == \/ fr.err # "nil"
                  \/ fr.f.Type # FRAME_HEADERS
                  \/ dec.err # "nil"
                  \/ rq.err # "nil"
       IN  /\ reqIn' = fr.r
           /\ IF fr.err = "block"
              THEN /\ pc' = "blocked"
                   /\ UNCHANGED << req, rw, reqStream, ctxDone >>
              ELSE IF bad
              THEN /\ pc' = "dropped"
                   /\ ctxDone' = TRUE
                   /\ reqStream' = StreamClose(reqStream)
                   /\ UNCHANGED << req, rw >>
              ELSE /\ pc' = "validate"
                   /\ req' = rq
                   /\ rw' = HeaderAdd(NewResponseWriter,
                                      "sec-webtransport-http3-draft", "draft02")
                   /\ UNCHANGED << reqStream, ctxDone >>
    /\ ioLog' = Append(ioLog, Op("ReadHeaders", << >>))
    /\ UNCHANGED << srv, codec, allowedOrigins, srvCtrl, clientCtrl, sessionId,
                    handlerInvoked, watcher, ncalls, rwRet, accepted, streamVars >>

\* The protocol and origin check: RejectSession(400), or the watcher is
\* started and the handler called.
ValidateAndDispatch ==
    /\ pc = "validate"
    /\ IF req.protocol # "webtransport"
          \/ ~validateOrigin(allowedOrigins, HeaderGet(req.Header, "origin"))
       THEN /\ \E ok \in Outcomes(reqStream) :
                 LET ws == RejectSessionOn(WS, StatusBadRequest, ok)
                 IN  rw' = ws.w /\ reqStream' = ws.st
            /\ ctxDone' = TRUE
            /\ pc' = "rejected"
            /\ UNCHANGED << handlerInvoked, watcher >>
       ELSE /\ watcher' = "reading"
            /\ handlerInvoked' = TRUE
            /\ pc' = "serving"
            /\ UNCHANGED << rw, reqStream, ctxDone >>
    /\ UNCHANGED << srv, codec, allowedOrigins, ioLog, srvCtrl, clientCtrl, reqIn, sessionId,
                    req, ncalls, rwRet, accepted, streamVars >>

\* The client ends the request stream (a FIN or a reset).
ClientEnds ==
    /\ pc = "serving"
    /\ ~reqIn.fin
    /\ reqIn' = [reqIn EXCEPT !.fin = TRUE]
    /\ UNCHANGED << srv, codec, pc, allowedOrigins, ioLog, srvCtrl, clientCtrl, sessionId, req,
                    handlerInvoked, watcher, respVars, accepted, streamVars >>

\* The watcher's requestStream.Read(buf) returns: with bytes, and the loop
\* goes on, or with an error.
WatcherRead ==
    /\ watcher = "reading"
    /\ LET rd == ReadOnce(reqIn, 1024)
       IN  /\ rd.err # "block"
           /\ reqIn' = rd.r
           /\ watcher' = IF rd.err = "nil" THEN "reading" ELSE "readErr"
    /\ UNCHANGED << srv, codec, pc, allowedOrigins, ioLog, srvCtrl, clientCtrl, sessionId, req,
                    handlerInvoked, respVars, accepted, streamVars >>

\* A watcher that closes the request stream and forgets to cancel.
WatcherCloseOnly ==
    /\ watcher = "readErr"
    /\ reqStream' = StreamClose(reqStream)
    /\ watcher' = "done"
    /\ UNCHANGED << srv, codec, pc, allowedOrigins, ioLog, srvCtrl, clientCtrl, reqIn, sessionId,
                    req, handlerInvoked, rw, ctxDone, ncalls, rwRet, accepted, streamVars >>

\* The watcher after a failed read: cancelFunction(); requestStream.Close().
WatcherCancel ==
    /\ watcher = "readErr"
    /\ ctxDone' = TRUE
    /\ reqStream' = StreamClose(reqStream)
    /\ watcher' = "done"
    /\ UNCHANGED << srv, codec, pc, allowedOrigins, ioLog, srvCtrl, clientCtrl, reqIn, sessionId,
                    req, handlerInvoked, rw, ncalls, rwRet, accepted, streamVars >>

\* The stream of a call that holds none.
NoReader == Reader(<< >>, FALSE)

\* No stream opened or accepted, no call pending, no datagram.
NoStreams ==
    /\ out = [bidi |-> << >>, uni |-> << >>, dg |-> << >>]
    /\ inq = [bidi |-> << >>, uni |-> << >>, n |-> 0]
    /\ got = [bidi |-> << >>, uni |-> << >>]
    /\ acc = [pc |-> "idle", late |-> FALSE, err |-> "none", r |-> NoReader]
    /\ accUni = [pc |-> "idle", late |-> FALSE, ctx |-> "session", err |-> "none"]
    /\ rcv = [pc |-> "idle", late |-> FALSE, lateCtx |-> FALSE, ctx |-> "session",
              helper |-> "none", hasDg |-> FALSE, raw |-> << >>,
              res |-> [msg |-> << >>, err |-> "none"],
              ret |-> [msg |-> << >>, err |-> "none"]]
    /\ ownCtxDone = FALSE
    /\ dgq = << >>

NoSession ==
    /\ accepted = FALSE
    /\ NoStreams
    /\ rw = NewResponseWriter
    /\ reqStream = NewStream
    /\ ctxDone = FALSE
    /\ ncalls = 0
    /\ rwRet = Ret("none", 0, "nil")

\* A connection has been accepted by Run; handleSession starts.
\* No frame is on its way through the codec.
NoCodec == [pc |-> "none", f |-> ZeroFrame, r |-> Reader(<< >>, FALSE),
            res |-> [err |-> "none", f |-> ZeroFrame],
            sm |-> [pc |-> "none", src |-> "none", m |-> EmptySettings,
                    f |-> ZeroFrame,
                    res |-> [err |-> "none", s |-> EmptySettings]]]

\* Server.Run in its loop, having started handleSession for one connection.
RunServing ==
    [run |-> "listening", err |-> "none", ctxDone |-> FALSE, listener |-> "open",
     broken |-> FALSE, queue |-> 0, arrived |-> 1, closer |-> "waiting", spawned |-> 1]

\* handleSession has not started on the connection.
Unstarted ==
    /\ pc = "start"
    /\ allowedOrigins \in AllowLists
    /\ ioLog = << >>
    /\ srvCtrl = NewStream
    /\ clientCtrl = Reader(<< >>, FALSE)
    /\ reqIn = Reader(<< >>, FALSE)
    /\ sessionId = 0
    /\ req = NoRequest
    /\ handlerInvoked = FALSE
    /\ watcher = "none"
    /\ NoSession

Init == srv = RunServing /\ codec = NoCodec /\ Unstarted

Next ==
    \/ OpenServerControlStream
    \/ WriteControlHeader
    \/ WriteServerSettings
    \/ AcceptClientControlStream
    \/ ReadClientSettings
    \/ AcceptRequestStream
    \/ ReadRequest
    \/ ValidateAndDispatch
    \/ ClientEnds
    \/ WatcherRead
    \/ WatcherCancel

Spec == Init /\ [][Next]_vars

\* The watcher goroutine is scheduled.
FairSpec == Spec /\ WF_vars(WatcherRead) /\ WF_vars(WatcherCancel)

\* ------------------------------------------------- claims on handleSession

\* The bytes of the server's SETTINGS frame: type 4, length 10, and the two
\* pairs (0xffd277, 1) and (0x2b603742, 1) in either order.
SettingsFrameBytes ==
    { << 4, 10, 128, 255, 210, 119, 1, 171, 96, 55, 66, 1 >>,
      << 4, 10, 171, 96, 55, 66, 1, 128, 255, 210, 119, 1 >> }

\* C1: whenever handleSession accepts the client's control stream or reads
\* the client's settings, it has before that written the control stream
\* type and then the SETTINGS frame {H3_DATAGRAM_05: 1, ENABLE_WEBTRANSPORT: 1}
\* to the server control stream, and nothing else; the peer has both unless
\* a write failed.
C1_SettingsBeforeClientControl ==
    \A i \in DOMAIN ioLog :
        ioLog[i].op \in {"AcceptUniStream", "ReadSettings"} =>
            /\ \E j, k \in 1..(i - 1) :
                 /\ j < k
                 /\ ioLog[j] = Op("Write", << 0 >>)
                 /\ ioLog[k].op = "Write" /\ ioLog[k].b \in SettingsFrameBytes
            /\ Len(srvCtrl.calls) = 2
            /\ srvCtrl.calls[1].b = << 0 >>
            /\ srvCtrl.calls[2].b \in SettingsFrameBytes
            /\ (~srvCtrl.failed => srvCtrl.wire = << 0 >> \o srvCtrl.calls[2].b)

\* The client's settings have been read after both writes reached the peer.
C1_Witness ==
    /\ pc = "acceptRequest"
    /\ ~srvCtrl.failed
    /\ srvCtrl.wire = << 0, 4, 10, 128, 255, 210, 119, 1, 171, 96, 55, 66, 1 >>

\* C5: once the handler has been called and the client has ended the
\* request stream, the watcher's read fails and the watcher cancels the
\* session's context.
C5_WatcherCancelsScope ==
    /\ (handlerInvoked /\ reqIn.fin) ~> (watcher = "done" /\ ctxDone)
    /\ (watcher = "readErr") ~> ctxDone

\* The watcher has cancelled the context of a dispatched session.
C5_Witness == handlerInvoked /\ reqIn.fin /\ watcher = "done" /\ ctxDone

\* The request's protocol is not webtransport, or the allow-list is not
\* empty and the host of the Origin header is not in it.
NotAcceptable ==
    \/ req.protocol # "webtransport"
    \/ /\ ~allowedOrigins.isNil
       /\ allowedOrigins.hosts # {}
       /\ \/ OriginHost(HeaderGet(req.Header, "origin")).err # "nil"
          \/ OriginHost(HeaderGet(req.Header, "origin")).host \notin allowedOrigins.hosts

\* The one thing written to the request stream is a HEADERS frame whose
\* header block starts with :status 400.
Emitted400 ==
    /\ Len(reqStream.calls) = 1
    /\ LET fr == FrameRead(Reader(<< reqStream.calls[1].b >>, TRUE))
       IN  /\ fr.err = "nil" /\ fr.r.chunks = << >>
           /\ fr.f.Type = FRAME_HEADERS
           /\ DecodeFull(fr.f.Data).err = "nil"
           /\ DecodeFull(fr.f.Data).hfs[1] = Field(":status", "400")
    /\ reqStream.wire = IF reqStream.calls[1].ok THEN reqStream.calls[1].b ELSE << >>

\* C6: once a decoded request that is not acceptable is past the check, a
\* HEADERS frame with :status 400 was emitted, the context is cancelled, the
\* request stream is closed and the handler has not been called.
C6_BadRequestRejected ==
    (req.err = "nil" /\ pc # "validate" /\ NotAcceptable) =>
        /\ pc = "rejected"
        /\ ~handlerInvoked /\ watcher = "none"
        /\ Emitted400
        /\ ctxDone
        /\ reqStream.closed

\* The origin rejection scenario: the 400 has reached the peer.
C6_Witness ==
    /\ pc = "rejected"
    /\ req.protocol = "webtransport"
    /\ HeaderGet(req.Header, "origin") = "https://evil.example"
    /\ allowedOrigins.hosts = {"example.com"}
    /\ reqStream.wire = << 1, 4, 0, 0, 22, 15 >>

\* C7: the handler is called only for a request with :method CONNECT,
\* :protocol webtransport and non-empty :authority and :path.
C7_HandlerOnlyForConnect ==
    handlerInvoked =>
        /\ req.Method = "CONNECT"
        /\ req.protocol = "webtransport"
        /\ req.Host # ""
        /\ req.RequestURI # ""

\* ------------------------------------------------------------ the handler

\* The status codes a handler passes: informational, final with and without
\* a body.
Statuses == {99, 100, 200, 204, 304, 400}

\* The bodies a handler writes.
Bodies == { << >>, << 7 >> }

\* The handler's calls leave handleSession's own state alone.
HandlerFrame(op, n, err) ==
    /\ pc = "serving"
    /\ ncalls < MaxCalls
    /\ ncalls' = ncalls + 1
    /\ rwRet' = Ret(op, n, err)
    /\ UNCHANGED << orchVars, streamVars >>

\* The handler calls Session.AcceptSession.
HandlerAcceptSession ==
    /\ \E ok \in Outcomes(reqStream) :
         LET ws == AcceptSessionOn(WS, ok) IN rw' = ws.w /\ reqStream' = ws.st
    /\ accepted' = TRUE
    /\ UNCHANGED ctxDone
    /\ HandlerFrame("AcceptSession", 0, "nil")

\* The handler calls Session.RejectSession(errorCode).
HandlerRejectSession ==
    /\ \E errorCode \in Statuses, ok \in Outcomes(reqStream) :
         LET ws == RejectSessionOn(WS, errorCode, ok) IN rw' = ws.w /\ reqStream' = ws.st
    /\ ctxDone' = TRUE
    /\ UNCHANGED accepted
    /\ HandlerFrame("RejectSession", 0, "nil")

\* The handler calls Session.CloseSession.
HandlerCloseSession ==
    /\ LET ws == CloseSessionOn(WS) IN rw' = ws.w /\ reqStream' = ws.st
    /\ ctxDone' = TRUE
    /\ UNCHANGED accepted
    /\ HandlerFrame("CloseSession", 0, "nil")

\* The handler calls ResponseWriter.WriteHeader(status).
HandlerWriteHeader ==
    /\ \E status \in Statuses, ok \in Outcomes(reqStream) :
         LET ws == WriteHeader(WS, status, ok) IN rw' = ws.w /\ reqStream' = ws.st
    /\ UNCHANGED << ctxDone, accepted >>
    /\ HandlerFrame("WriteHeader", 0, "nil")

\* The handler calls ResponseWriter.Write(p).
HandlerWrite ==
    \E p \in Bodies :
        LET r == Write(WS, p)
        IN  /\ rw' = r.ws.w /\ reqStream' = r.ws.st
            /\ UNCHANGED << ctxDone, accepted >>
            /\ HandlerFrame("Write", r.n, r.err)

\* The handler calls ResponseWriter.Flush.
HandlerFlush ==
    /\ \E ok \in Outcomes(reqStream) :
         LET ws == Flush(WS, ok) IN rw' = ws.w /\ reqStream' = ws.st
    /\ UNCHANGED << ctxDone, accepted >>
    /\ HandlerFrame("Flush", 0, "nil")

\* The handler calls ResponseWriter.DataStream.
HandlerDataStream ==
    /\ \E ok \in Outcomes(reqStream) :
         LET ws == DataStream(WS, ok) IN rw' = ws.w /\ reqStream' = ws.st
    /\ UNCHANGED << ctxDone, accepted >>
    /\ HandlerFrame("DataStream", 0, "nil")

\* handleSession has called the handler: the state Spec reaches with the
\* acceptance scenario's request, nothing having failed.
Serving ==
    /\ srv = RunServing
    /\ codec = NoCodec
    /\ pc = "serving"
    /\ allowedOrigins \in AllowLists /\ allowedOrigins.hosts # {}
    /\ ioLog = << Op("OpenUniStream", << >>), Op("Write", << 0 >>),
                  Op("Write", ClientSettingsBytes), Op("AcceptUniStream", << >>),
                  Op("ReadSettings", << >>), Op("AcceptStream", << >>),
                  Op("ReadHeaders", << >>) >>
    /\ srvCtrl = StreamWrite(StreamWrite(NewStream, << 0 >>, TRUE),
                             ClientSettingsBytes, TRUE)
    /\ clientCtrl = Reader(<< >>, FALSE)
    /\ reqIn = Reader(<< >>, FALSE)
    /\ sessionId \in SessionIds
    /\ req = RequestFromHeaders(GoodRequest)
    /\ handlerInvoked = TRUE
    /\ watcher = "reading"
    /\ ctxDone = FALSE
    /\ NoStreams

\* The response writer handleSession hands to the handler.
FirstWriter ==
    [w  |-> HeaderAdd(NewResponseWriter, "sec-webtransport-http3-draft", "draft02"),
     st |-> NewStream]

\* The handler has made no call yet.
Dispatched ==
    /\ Serving
    /\ rw = FirstWriter.w
    /\ reqStream = FirstWriter.st
    /\ ncalls = 0
    /\ rwRet = Ret("none", 0, "nil")
    /\ accepted = FALSE

\* The handler's first call was AcceptSession, and nothing failed.
Accepted ==
    /\ Serving
    /\ rw = AcceptSessionOn(FirstWriter, TRUE).w
    /\ reqStream = AcceptSessionOn(FirstWriter, TRUE).st
    /\ ncalls = 1
    /\ rwRet = Ret("AcceptSession", 0, "nil")
    /\ accepted = TRUE

InitRW == Dispatched /\ sessionId = 0 /\ allowedOrigins.isNil = FALSE

NextRW ==
    \/ HandlerAcceptSession
    \/ HandlerRejectSession
    \/ HandlerCloseSession
    \/ HandlerWriteHeader
    \/ HandlerWrite
    \/ HandlerFlush
    \/ HandlerDataStream
    \/ ClientEnds
    \/ WatcherRead
    \/ WatcherCancel

\* The handler's use of the response writer and the session, with the watcher.
SpecRW == InitRW /\ [][NextRW]_vars

\* ------------------------------------------- claims on the response writer

MalformedFrame == Frame(-1, 0, 0, << >>)

RECURSIVE ParseFrames(_)
\* The frames a peer finds in the bytes b: type, length, payload, again and
\* again; what does not parse is one MalformedFrame at the end.
ParseFrames(b) ==
    IF b = << >> THEN << >>
    ELSE LET t    == VarintRead(Reader(<< b >>, TRUE))
             l    == VarintRead(t.r)
             rest == Remaining(l.r)
         IN  IF t.err # "nil" \/ l.err # "nil" THEN << MalformedFrame >>
             ELSE IF Len(rest) < l.val THEN << MalformedFrame >>
             ELSE << Frame(t.val, 0, l.val, SubSeq(rest, 1, l.val)) >>
                  \o ParseFrames(DropN(rest, l.val))

\* What the response writer has been made to emit: the bytes on the request
\* stream and the bytes still buffered.
Emitted == reqStream.wire \o rw.buf

\* The :status of a HEADERS frame.
StatusOf(f) == DecodeFull(f.Data).hfs[1].Value

IsFinalHeaders(f) == f.Type = FRAME_HEADERS /\ StatusOf(f) \notin {"100", "199"}

\* Every DATA frame of fs comes after a HEADERS frame.
HeadersBeforeData(fs) ==
    \A i \in DOMAIN fs :
        fs[i].Type = FRAME_DATA => \E j \in 1..(i - 1) : fs[j].Type = FRAME_HEADERS

\* C2: the request stream, and what is buffered for it, parse as frames in
\* which every DATA frame comes after a HEADERS frame; and a Write on a
\* writer with no final header yet emits a HEADERS frame with :status 200
\* (and the draft header) and then the DATA frame.
C2_HeadersBeforeData ==
    /\ [](/\ MalformedFrame \notin { ParseFrames(Emitted)[i] : i \in DOMAIN ParseFrames(Emitted) }
          /\ HeadersBeforeData(ParseFrames(reqStream.wire))
          /\ HeadersBeforeData(ParseFrames(Emitted)))
    /\ [][(~rw.headerWritten /\ ~rw.err /\ rwRet'.op = "Write" /\ ncalls' = ncalls + 1)
            => \E p \in Bodies :
                 Emitted' = Emitted \o << 1, 4, 0, 0, 19, 15 >> \o << 0, Len(p) >> \o p]_vars

\* A Write as the handler's first call has put HEADERS 200 and DATA on the
\* request stream.
C2_Witness ==
    /\ rwRet.op = "Flush" /\ ncalls = 2
    /\ reqStream.wire = << 1, 4, 0, 0, 19, 15, 0, 1, 7 >>

\* The number of HEADERS frames of fs before its first DATA frame.
HeadersBeforeFirstData(fs) ==
    Cardinality({ i \in DOMAIN fs :
        /\ fs[i].Type = FRAME_HEADERS
        /\ \A j \in 1..(i - 1) : fs[j].Type # FRAME_DATA })

\* C3 as claimed: at most one HEADERS frame is on the request stream before
\* the first DATA frame.
C3_AtMostOneHeaders == HeadersBeforeFirstData(ParseFrames(reqStream.wire)) <= 1

\* C3 as amended: at most one HEADERS frame with a final (non-1xx) status
\* is emitted; every other HEADERS frame carries a 1xx status and comes
\* before it, and no HEADERS frame comes after a DATA frame.
C3_AtMostOneFinalHeaders ==
    LET fs == ParseFrames(Emitted)
    IN  /\ Cardinality({ i \in DOMAIN fs : IsFinalHeaders(fs[i]) }) <= 1
        /\ \A i, j \in DOMAIN fs :
             (IsFinalHeaders(fs[i]) /\ fs[j].Type = FRAME_HEADERS /\ i # j) =>
                 (j < i /\ StatusOf(fs[j]) \in {"100", "199"})
        /\ \A i, j \in DOMAIN fs :
             (fs[i].Type = FRAME_DATA /\ fs[j].Type = FRAME_HEADERS) => j < i

\* A 1xx HEADERS frame, the 200 of AcceptSession and a DATA frame have
\* reached the peer.
C3_Witness ==
    /\ rwRet.op = "Flush"
    /\ reqStream.wire = << 1, 4, 0, 0, 17, 15, 1, 4, 0, 0, 19, 15, 0, 1, 7 >>

\* ------------------------------------------------- streams of the session

\* The state the session is in: pending until AcceptSession, open after it,
\* closed once the session's context is cancelled (RejectSession,
\* CloseSession, or the watcher's cancelFunction).
SessionState ==
    IF ctxDone THEN "closed" ELSE IF accepted THEN "open" ELSE "pending"

\* The context a caller hands to a blocking call: the session's, or one of
\* the caller's own that ending the session does not cancel.
Contexts == { "session", "own" }

CtxDone(c) == IF c = "session" THEN ctxDone ELSE ownCtxDone

\* The bytes openStream writes first: the frame type, then s.StreamID().
WebTransportStreamPrefix(id) ==
    VarintAppend(FRAME_WEBTRANSPORT_STREAM) \o VarintAppend(id)

\* openStream without its Write.
openStreamNoPrefix(id, res, ok) == [stream |-> NewStream, err |-> res]

\* Session.openStream: res is the result of Session.OpenStream[Sync] and ok
\* the result of the Write of the prefix.  The err of that Write is a
\* variable of the inner block: the stream is closed, and what is
\* returned is the stream with the err of the open.
openStream(id, res, ok) ==
    IF res = "nil"
    THEN LET w == StreamWrite(NewStream, WebTransportStreamPrefix(id), ok)
         IN  [stream |-> IF ok THEN w ELSE StreamClose(w), err |-> res]
    ELSE [stream |-> NewStream, err |-> res]

\* Session.openUniStream: the SendStream around what
\* Session.OpenUniStream[Sync] returned, and its err.
openUniStream(id, res) ==
    [stream |-> [SendStream |-> NewStream, writeHeaderBeforeData |-> TRUE,
                 headerWritten |-> FALSE, requestSessionID |-> id],
     err |-> res]

\* SendStream.Write marking the header as written before it writes it.
SendStreamWriteMarkFirst(s, p, okh, okd) ==
    IF s.writeHeaderBeforeData /\ ~s.headerWritten
    THEN LET hdr == VarintAppend(STREAM_WEBTRANSPORT_UNI_STREAM)
                    \o VarintAppend(s.requestSessionID)
             h   == StreamWrite(s.SendStream, hdr, okh)
         IN  IF ~okh
             THEN [s |-> [s EXCEPT !.SendStream = StreamClose(h),
                                   !.headerWritten = TRUE],
                   n |-> 0, err |-> "err"]
             ELSE [s |-> [s EXCEPT !.SendStream = StreamWrite(h, p, okd),
                                   !.headerWritten = TRUE],
                   n |-> IF okd THEN Len(p) ELSE 0,
                   err |-> IF okd THEN "nil" ELSE "err"]
    ELSE [s |-> [s EXCEPT !.SendStream = StreamWrite(@, p, okd)],
          n |-> IF okd THEN Len(p) ELSE 0,
          err |-> IF okd THEN "nil" ELSE "err"]

\* SendStream.Write(p): okh is the result of the Write of the header (when
\* there is one), okd the result of the Write of p.
SendStreamWrite(s, p, okh, okd) ==
    IF s.writeHeaderBeforeData /\ ~s.headerWritten
    THEN LET hdr == VarintAppend(STREAM_WEBTRANSPORT_UNI_STREAM)
                    \o VarintAppend(s.requestSessionID)
             h   == StreamWrite(s.SendStream, hdr, okh)
         IN  IF ~okh
             THEN [s |-> [s EXCEPT !.SendStream = StreamClose(h)],
                   n |-> 0, err |-> "err"]
             ELSE [s |-> [s EXCEPT !.SendStream = StreamWrite(h, p, okd),
                                   !.headerWritten = TRUE],
                   n |-> IF okd THEN Len(p) ELSE 0,
                   err |-> IF okd THEN "nil" ELSE "err"]
    ELSE [s |-> [s EXCEPT !.SendStream = StreamWrite(@, p, okd)],
          n |-> IF okd THEN Len(p) ELSE 0,
          err |-> IF okd THEN "nil" ELSE "err"]

\* The application bytes a handler writes on a stream in one call.
AppData == { << 7 >>, << 8, 9 >> }

\* The results an opening call of the QUIC connection can have.
OpenResults == { "nil", "err" }

\* What a call returned to the handler, with the state the session was in.
Yield(stream, err) ==
    [stream |-> stream, err |-> err, state |-> SessionState, rets |-> << >>]

\* A call of the handler on the session's streams: it leaves handleSession's
\* state, the response writer and the session's context alone.
StreamCall(op, n, err) ==
    /\ pc = "serving"
    /\ handlerInvoked
    /\ ncalls < MaxCalls
    /\ ncalls' = ncalls + 1
    /\ rwRet' = Ret(op, n, err)
    /\ UNCHANGED << orchVars, rw, reqStream, ctxDone, accepted >>

\* Session.OpenStream and Session.OpenStreamSync(ctx): both are openStream,
\* over Session.OpenStream or Session.OpenStreamSync.
OpenStream ==
    /\ \E sync \in BOOLEAN, res \in OpenResults, ok \in BOOLEAN :
         LET o == openStream(sessionId, res, ok)
         IN  /\ out' = [out EXCEPT !.bidi = Append(@, Yield(o.stream, o.err))]
             /\ StreamCall("OpenStream", 0, o.err)
    /\ UNCHANGED << inq, got, acc, accUni, rcv, ownCtxDone, dgq >>

\* Session.OpenUniStream and Session.OpenUniStreamSync(ctx).
OpenUniStream ==
    /\ \E sync \in BOOLEAN, res \in OpenResults :
         LET o == openUniStream(sessionId, res)
         IN  /\ out' = [out EXCEPT !.uni = Append(@, Yield(o.stream, o.err))]
             /\ StreamCall("OpenUniStream", 0, o.err)
    /\ UNCHANGED << inq, got, acc, accUni, rcv, ownCtxDone, dgq >>

\* The handler writes p on a bidirectional stream openStream returned
\* without an error: quic.Stream.Write.
BidiWrite ==
    /\ \E i \in DOMAIN out.bidi, p \in AppData :
         /\ out.bidi[i].err = "nil"
         /\ \E ok \in Outcomes(out.bidi[i].stream) :
              LET n   == IF ok THEN Len(p) ELSE 0
                  err == IF ok THEN "nil" ELSE "err"
              IN  /\ out' = [out EXCEPT
                               !.bidi[i].stream = StreamWrite(@, p, ok),
                               !.bidi[i].rets =
                                   Append(@, [p |-> p, n |-> n, err |-> err])]
                  /\ StreamCall("Stream.Write", n, err)
    /\ UNCHANGED << inq, got, acc, accUni, rcv, ownCtxDone, dgq >>

\* The handler writes p on a unidirectional stream openUniStream returned
\* without an error: SendStream.Write.
UniWrite ==
    /\ \E i \in DOMAIN out.uni, p \in AppData :
         /\ out.uni[i].err = "nil"
         /\ LET s == out.uni[i].stream
            IN  \E okh \in Outcomes(s.SendStream) :
                \E okd \in (IF okh THEN BOOLEAN ELSE {FALSE}) :
                  LET r == SendStreamWrite(s, p, okh, okd)
                  IN  /\ out' = [out EXCEPT
                                   !.uni[i].stream = r.s,
                                   !.uni[i].rets =
                                       Append(@, [p |-> p, n |-> r.n,
                                                  err |-> r.err])]
                      /\ StreamCall("SendStream.Write", r.n, r.err)
    /\ UNCHANGED << inq, got, acc, accUni, rcv, ownCtxDone, dgq >>

InitOpen == Dispatched /\ allowedOrigins.isNil = FALSE

NextOpen ==
    \/ HandlerAcceptSession
    \/ HandlerCloseSession
    \/ OpenStream
    \/ OpenUniStream
    \/ BidiWrite
    \/ UniWrite

\* The handler's use of the session and of the streams it opens.
SpecOpen == InitOpen /\ [][NextOpen]_vars

\* ------------------------------------------------ blocking calls and the peer

\* What the peer sends on a bidirectional stream it opens: the
\* WEBTRANSPORT_STREAM header and a byte, or nothing yet.
InboundBidi ==
    { Reader(<< WebTransportStreamPrefix(sessionId) \o << 9 >> >>, FALSE),
      Reader(<< >>, FALSE) }

\* What the peer sends on a unidirectional stream it opens.
InboundUni ==
    { Reader(<< VarintAppend(STREAM_WEBTRANSPORT_UNI_STREAM)
                \o VarintAppend(sessionId) \o << 9 >> >>, FALSE) }

\* The datagrams the peer sends: the quarter stream id and a byte.
Datagrams == { VarintAppend(sessionId \div 4) \o << 9 >> }

\* The peer opens a bidirectional stream.
PeerOpensStream ==
    /\ inq.n < MaxArrivals
    /\ \E r \in InboundBidi : inq' = [inq EXCEPT !.bidi = Append(@, r), !.n = @ + 1]
    /\ UNCHANGED << orchVars, respVars, accepted, out, got, acc, accUni, rcv,
                    ownCtxDone, dgq >>

\* The peer opens a unidirectional stream.
PeerOpensUniStream ==
    /\ inq.n < MaxArrivals
    /\ \E r \in InboundUni : inq' = [inq EXCEPT !.uni = Append(@, r), !.n = @ + 1]
    /\ UNCHANGED << orchVars, respVars, accepted, out, got, acc, accUni, rcv,
                    ownCtxDone, dgq >>

\* A datagram of the peer arrives.
DatagramArrives ==
    /\ inq.n < MaxArrivals
    /\ \E d \in Datagrams : dgq' = Append(dgq, d)
    /\ inq' = [inq EXCEPT !.n = @ + 1]
    /\ UNCHANGED << orchVars, respVars, accepted, out, got, acc, accUni,
                    rcv, ownCtxDone >>

\* The caller cancels the context of its own.
CancelOwnContext ==
    /\ ~ownCtxDone
    /\ ownCtxDone' = TRUE
    /\ UNCHANGED << orchVars, respVars, accepted, out, inq, got, acc, accUni,
                    rcv, dgq >>

\* A task of the handler calls a blocking operation of the session.
TaskCall ==
    /\ pc = "serving"
    /\ handlerInvoked
    /\ ncalls < MaxCalls
    /\ ncalls' = ncalls + 1
    /\ UNCHANGED << orchVars, rw, reqStream, ctxDone, rwRet, accepted >>

\* Session.AcceptStream is called: it waits in
\* s.Session.AcceptStream(s.context).
CallAcceptStream ==
    /\ acc.pc = "idle"
    /\ acc' = [pc |-> "blocked", late |-> ctxDone, err |-> "none", r |-> NoReader]
    /\ TaskCall
    /\ UNCHANGED << out, inq, got, accUni, rcv, ownCtxDone, dgq >>

\* Session.AcceptStream waiting with a context that is never cancelled.
ReturnAcceptStreamBackground ==
    /\ acc.pc = "blocked"
    /\ inq.bidi # << >>
    /\ inq' = [inq EXCEPT !.bidi = Tail(@)]
    /\ acc' = [acc EXCEPT !.pc = "reading", !.r = Head(inq.bidi)]
    /\ UNCHANGED << orchVars, respVars, accepted, out, got, accUni, rcv,
                    ownCtxDone, dgq >>

\* s.Session.AcceptStream(s.context) returns, with a stream of the peer or
\* with the context's error: Session.AcceptStream returns the error, or goes
\* on to read one frame from the stream.
ReturnAcceptStream ==
    /\ acc.pc = "blocked"
    /\ \/ /\ inq.bidi # << >>
          /\ inq' = [inq EXCEPT !.bidi = Tail(@)]
          /\ acc' = [acc EXCEPT !.pc = "reading", !.r = Head(inq.bidi)]
       \/ /\ ctxDone
          /\ acc' = [acc EXCEPT !.pc = "idle", !.err = "canceled"]
          /\ UNCHANGED inq
    /\ UNCHANGED << orchVars, respVars, accepted, out, got, accUni, rcv,
                    ownCtxDone, dgq >>

\* streamFrame.Read(stream) returns: Session.AcceptStream returns the
\* stream with the error of that read.  With nothing to read yet it stays
\* in Frame.Read.
AcceptStreamReads ==
    /\ acc.pc = "reading"
    /\ \E fr \in { FrameRead(acc.r) } :
         /\ fr.err # "block"
         /\ acc' = [acc EXCEPT !.pc = "idle", !.err = fr.err, !.r = NoReader]
         /\ got' = [got EXCEPT !.bidi =
                      Append(@, [stream |-> fr.r, err |-> fr.err,
                                 frame |-> fr.f, state |-> SessionState,
                                 wire |-> Remaining(acc.r)])]
    /\ UNCHANGED << orchVars, respVars, accepted, out, inq, accUni, rcv,
                    ownCtxDone, dgq >>

\* Session.AcceptUniStream(ctx) is called: it waits in
\* s.Session.AcceptUniStream(ctx).
CallAcceptUniStream ==
    /\ accUni.pc = "idle"
    /\ \E ctx \in Contexts : 
         accUni' = [pc |-> "blocked", late |-> ctxDone, ctx |-> ctx, err |-> "none"]
    /\ TaskCall
    /\ UNCHANGED << out, inq, got, acc, rcv, ownCtxDone, dgq >>

\* s.Session.AcceptUniStream(ctx) returns, and Session.AcceptUniStream
\* returns a ReceiveStream around the stream, with the error.
ReturnAcceptUniStream ==
    /\ accUni.pc = "blocked"
    /\ \/ /\ inq.uni # << >>
          /\ inq' = [inq EXCEPT !.uni = Tail(@)]
          /\ accUni' = [accUni EXCEPT !.pc = "idle", !.err = "nil"]
          /\ got' = [got EXCEPT !.uni =
                       Append(@, [stream |-> [ReceiveStream |-> Head(inq.uni),
                                              readHeaderBeforeData |-> TRUE,
                                              headerRead |-> FALSE,
                                              requestSessionID |-> 0],
                                  err |-> "nil", state |-> SessionState,
                                  wire |-> Remaining(Head(inq.uni)),
                                  rets |-> << >>])]
       \/ /\ CtxDone(accUni.ctx)
          /\ accUni' = [accUni EXCEPT !.pc = "idle", !.err = "canceled"]
          /\ UNCHANGED << inq, got >>
    /\ UNCHANGED << orchVars, respVars, accepted, out, acc, rcv, ownCtxDone, dgq >>

\* ReceiveStream.Read(p) with len(p) = n: the stream header before the first
\* data, then one Read of the stream.
ReceiveStreamRead(s, n) ==
    LET h  == StreamHeaderRead(s.ReceiveStream)
        s1 == [s EXCEPT !.ReceiveStream = h.r]
        s2 == [s1 EXCEPT !.requestSessionID = h.h.ID, !.headerRead = TRUE]
        rd == ReadOnce(s2.ReceiveStream, n)
        d  == ReadOnce(s.ReceiveStream, n)
    IN  IF s.readHeaderBeforeData /\ ~s.headerRead
        THEN IF h.err # "nil"
             THEN [s |-> s1, n |-> 0, data |-> << >>, err |-> h.err]
             ELSE IF h.h.Type # STREAM_WEBTRANSPORT_UNI_STREAM
             THEN [s |-> s1, n |-> 0, data |-> << >>, err |-> "WrongStreamType"]
             ELSE [s |-> [s2 EXCEPT !.ReceiveStream = rd.r],
                   n |-> Len(rd.data), data |-> rd.data, err |-> rd.err]
        ELSE [s |-> [s EXCEPT !.ReceiveStream = d.r],
              n |-> Len(d.data), data |-> d.data, err |-> d.err]

\* The sizes of the buffers a handler reads into.
ReadSizes == { 1, 2 }

\* The handler reads from a stream AcceptUniStream returned without an
\* error; a read with nothing to read yet does not return.
UniRead ==
    /\ \E i \in DOMAIN got.uni, n \in ReadSizes :
         /\ got.uni[i].err = "nil"
         /\ \E r \in { ReceiveStreamRead(got.uni[i].stream, n) } :
              /\ r.err # "block"
              /\ got' = [got EXCEPT
                           !.uni[i].stream = r.s,
                           !.uni[i].rets =
                               Append(@, [n |-> r.n, data |-> r.data, err |-> r.err])]
              /\ StreamCall("ReceiveStream.Read", r.n, r.err)
    /\ UNCHANGED << out, inq, acc, accUni, rcv, ownCtxDone, dgq >>

NoDatagram == [msg |-> << >>, err |-> "none"]

\* Session.ReceiveDatagram(ctx) is called: it makes the channel, starts the
\* helper and waits in the select.  (One helper at a time in the model: no
\* new call while a helper of an earlier call is still there.)
CallReceiveDatagram ==
    /\ rcv.pc = "idle"
    /\ rcv.helper \in { "none", "done" }
    /\ \E ctx \in Contexts :
         rcv' = [pc |-> "select", late |-> ctxDone, lateCtx |-> CtxDone(ctx),
                 ctx |-> ctx, helper |-> "recv", hasDg |-> FALSE, raw |-> << >>,
                 res |-> NoDatagram, ret |-> NoDatagram]
    /\ TaskCall
    /\ UNCHANGED << out, inq, got, acc, accUni, ownCtxDone, dgq >>

\* The helper's s.Session.ReceiveDatagram(ctx) returns, with a datagram or
\* with the context's error; the helper goes to send it on the channel.
HelperReceives ==
    /\ rcv.helper = "recv"
    /\ \/ /\ dgq # << >>
          /\ rcv' = [rcv EXCEPT !.helper = "send", !.hasDg = TRUE, !.raw = Head(dgq),
                                !.res = [msg |-> Head(dgq), err |-> "nil"]]
          /\ dgq' = Tail(dgq)
       \/ /\ CtxDone(rcv.ctx)
          /\ rcv' = [rcv EXCEPT !.helper = "send",
                                !.res = [msg |-> << >>, err |-> "canceled"]]
          /\ UNCHANGED dgq
    /\ UNCHANGED << orchVars, respVars, accepted, out, inq, got, acc, accUni,
                    ownCtxDone >>

\* What ReceiveDatagram returns for the helper's result: its error, or the
\* error of quicvarint.Read, or msg[quicvarint.Len(quarterStreamId):].
DatagramResult(res) ==
    IF res.err # "nil" THEN [msg |-> << >>, err |-> res.err]
    ELSE LET q == VarintRead(Reader(<< res.msg >>, TRUE))
         IN  IF q.err # "nil" THEN [msg |-> << >>, err |-> q.err]
             ELSE [msg |-> DropN(res.msg, VarintLen(q.val)), err |-> "nil"]

\* The select takes the helper's result from the channel: the helper ends,
\* ReceiveDatagram returns.
SelectResult ==
    /\ rcv.pc = "select"
    /\ rcv.helper = "send"
    /\ rcv' = [rcv EXCEPT !.pc = "idle", !.helper = "done", !.res = NoDatagram,
                          !.ret = DatagramResult(rcv.res)]
    /\ UNCHANGED << orchVars, respVars, accepted, out, inq, got, acc, accUni,
                    ownCtxDone, dgq >>

\* ReceiveDatagram waits no more once the context is cancelled.
ReceiveDatagramCtxOnly(r) ==
    [r EXCEPT !.pc = "idle", !.ret = [msg |-> << >>, err |-> "StreamClosed"]]

\* The select takes ctx.Done(): ReceiveDatagram returns ErrSTreamClosed, and
\* the helper is left where it is.
SelectDone ==
    /\ rcv.pc = "select"
    /\ CtxDone(rcv.ctx)
    /\ rcv' = ReceiveDatagramCtxOnly(rcv)
    /\ UNCHANGED << orchVars, respVars, accepted, out, inq, got, acc, accUni,
                    ownCtxDone, dgq >>

InitAccept == Accepted /\ sessionId = 4 /\ allowedOrigins.isNil = FALSE

NextAccept ==
    \/ HandlerCloseSession
    \/ PeerOpensStream
    \/ PeerOpensUniStream
    \/ DatagramArrives
    \/ CancelOwnContext
    \/ CallAcceptStream
    \/ ReturnAcceptStream
    \/ AcceptStreamReads
    \/ CallAcceptUniStream
    \/ ReturnAcceptUniStream
    \/ CallReceiveDatagram
    \/ HelperReceives
    \/ SelectResult
    \/ SelectDone

\* The blocking calls on an accepted session, the peer and the session's end.
SpecAccept == InitAccept /\ [][NextAccept]_vars

\* The runtime runs every task that can go on: a call whose wait is over
\* returns, the helper goes on, the select takes a case that is ready.
FairSpecAccept ==
    /\ SpecAccept
    /\ WF_vars(ReturnAcceptStream)
    /\ WF_vars(ReturnAcceptUniStream)
    /\ WF_vars(HelperReceives)
    /\ WF_vars(SelectResult \/ SelectDone)

\* ------------------------------------------------ claims on the blocking calls

\* A call that returned did so with a cancellation or StreamClosed error.
Cancelled(err) == err \in { "canceled", "StreamClosed" }

\* The handler has called close_session() while the call was waiting.
ClosedWhileBlocked(call, waiting) == ctxDone /\ call.pc = waiting /\ ~call.late

\* C4 (as stated): when the handler calls close_session(), every call of
\* accept_stream, accept_uni_stream(ctx) or receive_datagram(ctx) that is
\* blocked on the session at that moment eventually returns with a
\* cancellation or StreamClosed error, whatever context it was given.
C4_BlockedCallsReturnOnClose ==
    /\ ClosedWhileBlocked(acc, "blocked")
           ~> (acc.pc = "idle" /\ Cancelled(acc.err))
    /\ ClosedWhileBlocked(accUni, "blocked")
           ~> (accUni.pc = "idle" /\ Cancelled(accUni.err))
    /\ ClosedWhileBlocked(rcv, "select")
           ~> (rcv.pc = "idle" /\ Cancelled(rcv.ret.err))

\* C4 (amended): when the handler calls close_session(), a call of
\* accept_stream that waits for a stream of the peer, and a call of
\* accept_uni_stream(ctx) or receive_datagram(ctx) that was given the
\* session's context, eventually stops waiting, and it returns a
\* cancellation or StreamClosed error unless a stream or a datagram came for
\* it; a call given another context returns only when that context is
\* cancelled or a stream or a datagram has come.
C4_SessionContextCallsReturn ==
    /\ ClosedWhileBlocked(acc, "blocked") ~> (acc.pc # "blocked")
    /\ (ClosedWhileBlocked(accUni, "blocked") /\ accUni.ctx = "session")
           ~> (accUni.pc = "idle")
    /\ (ClosedWhileBlocked(rcv, "select") /\ rcv.ctx = "session")
           ~> (rcv.pc = "idle")
    /\ [][ /\ (acc.pc = "blocked" /\ acc'.pc # "blocked" /\ inq.bidi = << >>)
                => (acc'.pc = "idle" /\ Cancelled(acc'.err) /\ ctxDone)
           /\ (acc.pc = "blocked" /\ acc'.pc = "reading") => inq.bidi # << >>
           /\ (accUni.pc = "blocked" /\ accUni'.pc = "idle" /\ inq.uni = << >>)
                => (Cancelled(accUni'.err) /\ CtxDone(accUni.ctx))
           /\ (rcv.pc = "select" /\ rcv'.pc = "idle" /\ rcv.res.err # "nil")
                => (Cancelled(rcv'.ret.err) /\ CtxDone(rcv.ctx))
         ]_vars

\* accept_uni_stream and receive_datagram were waiting with the session's
\* context when close_session() was called, and each has returned the
\* cancellation.
C4_Witness ==
    /\ rwRet.op = "CloseSession"
    /\ accUni.pc = "idle" /\ ~accUni.late /\ accUni.ctx = "session"
    /\ accUni.err = "canceled"
    /\ rcv.pc = "idle" /\ ~rcv.late /\ rcv.ctx = "session"
    /\ Cancelled(rcv.ret.err)

\* -------------------------------------- claims on the streams a handler opens

\* Every stream of ys that was handed to the user without an error was
\* handed over while the session was open.
YieldedWhileOpen(ys) ==
    \A i \in DOMAIN ys : ys[i].err = "nil" => ys[i].state = "open"

\* C8: the session is pending until accept_session, open after it, closed
\* after reject_session, close_session or cancellation of its scope, and
\* every stream that open_stream, open_stream_sync, open_uni_stream,
\* open_uni_stream_sync, accept_stream or accept_uni_stream handed to the
\* user was handed over while the session was open, never while it was
\* pending or closed.
C8_StreamsOnlyWhileOpen ==
    /\ SessionState \in { "pending", "open", "closed" }
    /\ (accepted /\ ~ctxDone) => SessionState = "open"
    /\ YieldedWhileOpen(out.bidi)
    /\ YieldedWhileOpen(out.uni)
    /\ YieldedWhileOpen(got.bidi)
    /\ YieldedWhileOpen(got.uni)

RECURSIVE Written(_)
\* The bytes of the handler's Write calls that returned no error, in order.
Written(rets) ==
    IF rets = << >> THEN << >>
    ELSE (IF Head(rets).err = "nil" THEN Head(rets).p ELSE << >>)
         \o Written(Tail(rets))

\* varint(0x41) | varint(session_id), byte by byte, for the request stream
\* ids of the model.
Prefix41 ==
    IF sessionId = 0 THEN << 64, 65, 0 >>
    ELSE IF sessionId = 4 THEN << 64, 65, 4 >>
    ELSE IF sessionId = 64 THEN << 64, 65, 64, 64 >>
    ELSE << 64, 65, 65, 4 >>

\* C9: on every bidirectional stream that open_stream or open_stream_sync
\* returned, the first Write is of varint(0x41) | varint(session_id) with
\* the id of the CONNECT request stream, and the peer gets these bytes
\* before every byte the handler writes.
C9_PrefixBeforeHandlerBytes ==
    \A i \in DOMAIN out.bidi :
        LET o == out.bidi[i]
        IN  o.err = "nil" =>
              /\ Len(o.stream.calls) >= 1
              /\ o.stream.calls[1].b = Prefix41
              /\ \/ o.stream.wire = Prefix41 \o Written(o.rets)
                 \/ o.stream.wire = << >> /\ Written(o.rets) = << >>
              /\ \A k \in 2..Len(o.stream.calls) :
                     o.stream.calls[k].b = o.rets[k - 1].p

\* open_stream on the session of request stream 64, then two writes.
C9_Witness ==
    /\ sessionId = 64
    /\ \E i \in DOMAIN out.bidi :
         /\ out.bidi[i].err = "nil"
         /\ out.bidi[i].stream.wire = << 64, 65, 64, 64, 8, 9, 7 >>

\* varint(0x54) | varint(session_id), byte by byte.
Header54 ==
    IF sessionId = 0 THEN << 64, 84, 0 >>
    ELSE IF sessionId = 4 THEN << 64, 84, 4 >>
    ELSE IF sessionId = 64 THEN << 64, 84, 64, 64 >>
    ELSE << 64, 84, 65, 4 >>

\* The header reached the underlying stream in call k.
HeaderSent(calls, k) == calls[k].b = Header54 /\ calls[k].ok

\* C10: on a stream from open_uni_stream, over any sequence of writes, the
\* header varint(0x54) | varint(session_id) is written to the underlying
\* stream once and before any application byte; when the write of the header
\* fails the stream is closed, the error is returned, no application byte is
\* written, and a later write attempts the header again.
C10_HeaderOnceBeforeData ==
    \A i \in DOMAIN out.uni :
        LET o     == out.uni[i]
            st    == o.stream.SendStream
            calls == st.calls
            sent  == { k \in DOMAIN calls : HeaderSent(calls, k) }
        IN  o.err = "nil" =>
              /\ Cardinality(sent) <= 1
              /\ \A k \in DOMAIN calls :
                     \/ k \in sent
                     \/ calls[k].b = Header54 /\ \A j \in sent : k < j
                     \/ calls[k].b \in AppData /\ \E j \in sent : j < k
              /\ \/ st.wire = Header54 \o Written(o.rets) /\ sent # { }
                 \/ st.wire = << >> /\ sent = { }
              /\ sent = { } =>
                     /\ Len(calls) = Len(o.rets)
                     /\ \A k \in DOMAIN o.rets :
                            o.rets[k].err = "err" /\ o.rets[k].n = 0
                     /\ o.rets # << >> => st.closed
              /\ o.stream.headerWritten <=> sent # { }

\* The header failed in the first write, and the second write tried it again.
C10_Witness ==
    \E i \in DOMAIN out.uni :
        /\ out.uni[i].err = "nil"
        /\ Len(out.uni[i].stream.SendStream.calls) = 2
        /\ [k \in 1..2 |-> [b  |-> out.uni[i].stream.SendStream.calls[k].b,
                             ok |-> out.uni[i].stream.SendStream.calls[k].ok]]
             = << [b |-> Header54, ok |-> FALSE], [b |-> Header54, ok |-> FALSE] >>
        /\ out.uni[i].stream.SendStream.closed
        /\ Len(out.uni[i].rets) = 2

\* ------------------------------------------------- what the peer may send

\* What a peer may send on a bidirectional stream: the WEBTRANSPORT_STREAM
\* header of this session or of another and data, in one piece or in
\* several; a DATA frame, whole or with its payload in two pieces; a HEADERS
\* frame without payload; a header cut short; nothing.
AnyInboundBidi ==
    { Reader(<< WebTransportStreamPrefix(sessionId) \o << 9, 8 >> >>, FALSE),
      Reader(<< << 64 >>, << 65 >> \o VarintAppend(sessionId), << 9 >> >>, TRUE),
      Reader(<< WebTransportStreamPrefix(sessionId + 4) \o << 9 >> >>, FALSE),
      Reader(<< << 0, 1, 9, 8 >> >>, FALSE),
      Reader(<< << 0, 2, 9 >>, << 8 >> >>, FALSE),
      Reader(<< << 1, 0 >> >>, FALSE),
      Reader(<< << 64, 65 >> >>, TRUE),
      Reader(<< >>, TRUE) }

\* What a peer may send on a unidirectional stream: every known stream type
\* and unknown ones, with an id and data; the WebTransport type in its
\* shortest and in a longer encoding, in pieces, and cut short.
AnyInboundUni ==
    { Reader(<< VarintAppend(t) \o VarintAppend(sessionId) \o << 9 >> >>, FALSE) :
        t \in { STREAM_CONTROL, STREAM_PUSH, STREAM_QPACK_ENCODER,
                STREAM_QPACK_DECODER, STREAM_WEBTRANSPORT_UNI_STREAM, 5, 33, 85 } }
    \cup
    { Reader(<< << 128, 0, 0, 84 >> \o VarintAppend(sessionId) \o << 9 >> >>, FALSE),
      Reader(<< << 64 >>, << 84 >>, VarintAppend(sessionId), << 9, 8 >> >>, TRUE),
      Reader(<< << 64, 84 >> >>, TRUE),
      Reader(<< << 1 >> >>, TRUE) }

\* The peer opens a bidirectional stream and sends what it likes.
PeerOpensAnyStream ==
    /\ inq.n < MaxArrivals
    /\ \E r \in AnyInboundBidi : inq' = [inq EXCEPT !.bidi = Append(@, r), !.n = @ + 1]
    /\ UNCHANGED << orchVars, respVars, accepted, out, got, acc, accUni, rcv,
                    ownCtxDone, dgq >>

\* The peer opens a unidirectional stream and sends what it likes.
PeerOpensAnyUniStream ==
    /\ inq.n < MaxArrivals
    /\ \E r \in AnyInboundUni : inq' = [inq EXCEPT !.uni = Append(@, r), !.n = @ + 1]
    /\ UNCHANGED << orchVars, respVars, accepted, out, got, acc, accUni, rcv,
                    ownCtxDone, dgq >>

NextInbound ==
    \/ PeerOpensAnyStream
    \/ PeerOpensAnyUniStream
    \/ CallAcceptStream
    \/ ReturnAcceptStream
    \/ AcceptStreamReads
    \/ CallAcceptUniStream
    \/ ReturnAcceptUniStream
    \/ UniRead

\* An accepted session accepts the streams of a peer that sends what it
\* likes, and reads from them.
SpecInbound == InitAccept /\ [][NextInbound]_vars

\* ----------------------------------------- claims on the streams of the peer

\* The first varint the peer sent on a stream.
FirstVarint(wire) == VarintRead(Reader(<< wire >>, TRUE))

\* C11: for every stream accept_uni_stream returned and every first varint
\* on the wire, known stream type or not, the first read fails with
\* WrongStreamType if and only if that varint is not 0x54 (a stream that
\* ends inside its header is left aside).
C11_WrongStreamTypeIffNot54 ==
    \A i \in DOMAIN got.uni :
        LET g == got.uni[i]
        IN  (/\ g.err = "nil" /\ g.rets # << >>
             /\ FirstVarint(g.wire).err = "nil" /\ g.rets[1].err # "EOF")
            => (g.rets[1].err = "WrongStreamType" <=> FirstVarint(g.wire).val # 84)

\* C14: accept_stream returns a stream without an error only if the first
\* frame header on it has the type WEBTRANSPORT_STREAM, and then exactly the
\* two leading varints are consumed: the stream is at the first
\* application byte.
C14_AcceptStreamChecksType ==
    \A i \in DOMAIN got.bidi :
        LET g == got.bidi[i]
            t == FirstVarint(g.wire)
            l == VarintRead(t.r)
        IN  g.err = "nil" =>
              /\ t.err = "nil" /\ t.val = 65
              /\ l.err = "nil"
              /\ Remaining(g.stream) = DropN(g.wire, t.n + l.n)

\* ---------------------------------------------------------------- datagrams

\* SendDatagram with the stream id itself in front of the message.
SendDatagramRawId(id, msg) == VarintAppend(id) \o msg

\* Session.SendDatagram: the buffer it hands to s.Session.SendDatagram, the
\* quarter of the request stream's id and the message.
SendDatagram(id, msg) == VarintAppend(id \div 4) \o msg

\* Messages of the handler and of the peer: none, a byte, bytes that read as
\* a varint.
Payloads == { << >>, << 9 >>, << 64, 65, 9 >> }

\* The handler calls Session.SendDatagram(msg); QUIC takes the buffer or
\* returns an error.
CallSendDatagram ==
    /\ \E msg \in Payloads, err \in { "nil", "failed" } :
         /\ out' = [out EXCEPT !.dg = Append(@, [msg |-> msg,
                                                 wire |-> SendDatagram(sessionId, msg)])]
         /\ StreamCall("SendDatagram", 0, err)
    /\ UNCHANGED << inq, got, acc, accUni, rcv, ownCtxDone, dgq >>

\* What the peer may send in a datagram: the quarter stream id of this
\* session in its shortest form and a message; the same id in a longer
\* form; a varint cut short; nothing.
AnyDatagrams ==
    { VarintAppend(sessionId \div 4) \o p : p \in Payloads }
    \cup (IF sessionId \div 4 < 64 THEN { << 64, sessionId \div 4, 9 >> } ELSE { })
    \cup { << 64 >>, << >> }

\* A datagram of the peer arrives, with what the peer likes in it.
AnyDatagramArrives ==
    /\ inq.n < MaxArrivals
    /\ \E d \in AnyDatagrams : dgq' = Append(dgq, d)
    /\ inq' = [inq EXCEPT !.n = @ + 1]
    /\ UNCHANGED << orchVars, respVars, accepted, out, got, acc, accUni,
                    rcv, ownCtxDone >>

InitDatagram == Accepted /\ allowedOrigins.isNil = FALSE

NextDatagram ==
    \/ CallSendDatagram
    \/ AnyDatagramArrives
    \/ CancelOwnContext
    \/ CallReceiveDatagram
    \/ HelperReceives
    \/ SelectResult
    \/ SelectDone

\* An accepted session sends datagrams and receives those of a peer that
\* sends what it likes.
SpecDatagram == InitDatagram /\ [][NextDatagram]_vars

\* The datagram starts with the shortest varint of the session's quarter
\* stream id.
QuarterShaped(d) == IsPrefix(VarintAppend(sessionId \div 4), d)

\* C12: what send_datagram(p) hands to QUIC reads as the varint of the
\* session id divided by four (not of the id itself) followed by exactly p,
\* and receive_datagram of a datagram of that shape returns exactly the
\* bytes after that varint.
C12_DatagramQuarterIdRoundTrip ==
    /\ \A i \in DOMAIN out.dg :
         LET q == FirstVarint(out.dg[i].wire)
         IN  /\ q.err = "nil"
             /\ q.val = sessionId \div 4
             /\ q.n = VarintLen(sessionId \div 4)
             /\ Remaining(q.r) = out.dg[i].msg
    /\ (rcv.pc = "idle" /\ rcv.hasDg /\ QuarterShaped(rcv.raw)
        /\ rcv.ret.err # "StreamClosed")
       => /\ rcv.ret.err = "nil"
          /\ VarintAppend(sessionId \div 4) \o rcv.ret.msg = rcv.raw

\* A session whose quarter id takes two bytes has sent a message that reads
\* as a varint and has received one.
C12_Witness ==
    /\ sessionId = 260
    /\ \E i \in DOMAIN out.dg : out.dg[i].msg = << 64, 65, 9 >>
    /\ rcv.pc = "idle" /\ rcv.hasDg /\ rcv.raw = << 64, 65, 64, 65, 9 >>
    /\ rcv.ret = [msg |-> << 64, 65, 9 >>, err |-> "nil"]

\* C13: a receive_datagram(ctx) whose context is cancelled while the call
\* waits, no datagram having arrived for it, returns StreamClosed and no
\* other error, however the helper and the select interleave.
C13_CancelledReceiveIsStreamClosed ==
    (rcv.pc = "idle" /\ rcv.ret.err # "none" /\ ~rcv.lateCtx /\ ~rcv.hasDg)
    => rcv.ret.err = "StreamClosed"

\* ------------------------------------------------ claims on setup failures

\* C15: when a step of the setup has failed (a write on the server control
\* stream among them), handleSession has dropped the connection and the
\* handler is never invoked for it.
C15_NoHandlerAfterSetupFailure ==
    /\ pc = "dropped" => ~handlerInvoked
    /\ srvCtrl.failed => ~handlerInvoked

\* ------------------------------------- claims on the calls of the session

\* The frames a call has added to what the response writer emitted.
NewFrames(before, after) == ParseFrames(DropN(after, Len(before)))

Pending == ~accepted /\ ~ctxDone /\ ~rw.headerWritten /\ ~rw.err

Returned(op) == rwRet'.op = op /\ ncalls' = ncalls + 1

\* C18: a write_header after one with a final (non-1xx) status emits
\* nothing and leaves the status as it is, so that at most one HEADERS
\* frame with a final status is ever emitted; a write_header with a 1xx
\* status is flushed at once and does not latch, one with a final status
\* latches and stays in the buffer.
C18_FinalStatusLatches ==
    /\ [][(rw.headerWritten /\ Returned("WriteHeader")) =>
             (rw' = rw /\ reqStream' = reqStream)]_vars
    /\ [](Cardinality({ i \in DOMAIN ParseFrames(Emitted) :
                          IsFinalHeaders(ParseFrames(Emitted)[i]) }) <= 1)
    /\ [][(~rw.headerWritten /\ ~rw.err /\ Returned("WriteHeader")) =>
             LET fs == NewFrames(Emitted, Emitted')
             IN  /\ IsPrefix(Emitted, Emitted')
                 /\ Len(fs) = 1 /\ fs[1].Type = FRAME_HEADERS
                 /\ StatusOf(fs[1]) = Itoa(rw'.status)
                 /\ IF rw'.status \in 100..199
                    THEN /\ ~rw'.headerWritten
                         /\ ~rw'.err => (rw'.buf = << >> /\ reqStream'.wire = Emitted')
                    ELSE /\ rw'.headerWritten
                         /\ reqStream' = reqStream]_vars

\* write_header(100) went to the stream at once, write_header(200) is in
\* the buffer, and a third write_header has left both as they were.
C18_Witness ==
    /\ rwRet.op = "WriteHeader" /\ ncalls = 3
    /\ Len(reqStream.calls) = 1
    /\ reqStream.wire = << 1, 4, 0, 0, 17, 15 >>
    /\ rw.buf = << 1, 4, 0, 0, 19, 15 >>
    /\ rw.headerWritten /\ rw.status = 200

\* The statuses that allow no body.
NoBodyStatuses == (100..199) \cup { 204, 304 }

\* C19: a write(p) on the response writer fails with BodyNotAllowed and
\* emits no DATA frame when the status recorded at its body check is 1xx,
\* 204 or 304; for every other status it emits exactly one DATA frame, whose
\* length field is the number of bytes of p (the writer's buffer not having
\* failed before).
C19_BodyNotAllowedOrOneDataFrame ==
    [][(Returned("Write") /\ ~rw.err) =>
          LET fs   == NewFrames(Emitted, Emitted')
              data == { i \in DOMAIN fs : fs[i].Type = FRAME_DATA }
          IN  /\ IsPrefix(Emitted, Emitted')
              /\ IF rw'.status \in NoBodyStatuses
                 THEN /\ rwRet'.err = "ErrBodyNotAllowed" /\ rwRet'.n = 0
                      /\ data = { }
                 ELSE /\ rwRet'.err = "nil"
                      /\ data = { Len(fs) }
                      /\ \E p \in Bodies :
                           /\ fs[Len(fs)] = Frame(FRAME_DATA, 0, Len(p), p)
                           /\ rwRet'.n = Len(p) + 2
                           /\ Emitted' = SubSeq(Emitted', 1, Len(Emitted') - Len(p) - 2)
                                         \o << FRAME_DATA, Len(p) >> \o p]_vars

\* write_header(304) and then a write of one byte, which failed: the
\* HEADERS frame alone is in the buffer.
C19_Witness ==
    /\ rwRet = Ret("Write", 0, "ErrBodyNotAllowed") /\ ncalls = 2
    /\ rw.status = 304 /\ rw.headerWritten
    /\ Emitted = << 1, 4, 0, 0, 21, 15 >>

\* ------------------------------------------------------------ frame codec

\* The frames handed to Frame.Write: every type, with and without a session
\* id, any payload and any Length field (the fields of the struct are set
\* one by one by the caller).
Frames ==
    { Frame(t, sid, l, [i \in 1..n |-> 6 + i]) :
        t \in { FRAME_DATA, FRAME_HEADERS, FRAME_SETTINGS, FRAME_GOAWAY,
                FRAME_WEBTRANSPORT_STREAM },
        sid \in { 0, 4 }, l \in 0..MaxPayload, n \in 0..MaxPayload }

\* The ways a reader hands on the bytes b: all at once, or in two pieces.
Chunkings(b) ==
    { << b >> } \cup
    { << SubSeq(b, 1, k), SubSeq(b, k + 1, Len(b)) >> : k \in 1..(Len(b) - 1) }

\* f.Write(w): the bytes reach a reader whole or in two pieces, with the
\* end of the stream after them or not.
CodecWrite ==
    /\ codec.pc = "new"
    /\ \E c \in Chunkings(FrameWrite(codec.f)), fin \in BOOLEAN :
         codec' = [codec EXCEPT !.pc = "written", !.r = Reader(c, fin)]
    /\ UNCHANGED << srv, pc, allowedOrigins, ioLog, srvCtrl, clientCtrl, reqIn, sessionId,
                    req, handlerInvoked, watcher, respVars, accepted, streamVars >>

\* g.Read(r) on a fresh frame g.
CodecRead ==
    /\ codec.pc = "written"
    /\ \E fr \in { FrameRead(codec.r) } :
         /\ fr.err # "block"
         /\ codec' = [codec EXCEPT !.pc = "read", !.r = fr.r,
                                   !.res = [err |-> fr.err, f |-> fr.f]]
    /\ UNCHANGED << srv, pc, allowedOrigins, ioLog, srvCtrl, clientCtrl, reqIn, sessionId,
                    req, handlerInvoked, watcher, respVars, accepted, streamVars >>

InitFrame ==
    /\ srv = RunServing
    /\ Unstarted
    /\ allowedOrigins = [isNil |-> TRUE, hosts |-> {}]
    /\ \E f \in Frames : codec = [NoCodec EXCEPT !.pc = "new", !.f = f]

NextFrame ==
    \/ CodecWrite
    \/ CodecRead

\* A frame is written by Frame.Write and read back by Frame.Read.
SpecFrame == InitFrame /\ [][NextFrame]_vars

\* The bytes Frame.Write emitted for codec.f, whatever has been read since.
CodecBytes == FrameWrite(codec.f)

\* C20: for every frame f whose type is not WEBTRANSPORT_STREAM, Frame.Write
\* emits the type, the number of bytes of the payload as the second varint
\* and the payload, and Frame.Read of those bytes gives a frame with the
\* type, the length and the payload of f.
C20_FrameRoundTrip ==
    (codec.pc \in { "written", "read" } /\ codec.f.Type # FRAME_WEBTRANSPORT_STREAM)
    => /\ CodecBytes = VarintAppend(codec.f.Type)
                       \o VarintAppend(Len(codec.f.Data)) \o codec.f.Data
       /\ codec.pc = "read" =>
            /\ codec.res.f.Type = codec.f.Type
            /\ codec.res.f.Length = codec.f.Length
            /\ codec.res.f.Data = codec.f.Data

\* C21: for every frame of type WEBTRANSPORT_STREAM with session id s,
\* whatever its Length and Data hold, Frame.Write emits varint(0x41) |
\* varint(s) and no byte more; Frame.Read of such a header gives session id
\* s and an empty payload and consumes the two varints only.
C21_WebTransportFrameIsHeaderOnly ==
    (codec.pc \in { "written", "read" } /\ codec.f.Type = FRAME_WEBTRANSPORT_STREAM)
    => /\ CodecBytes = << 64, 65 >> \o VarintAppend(codec.f.SessionID)
       /\ (codec.pc = "read" /\ codec.res.err = "nil") =>
            /\ codec.res.f.SessionID = codec.f.SessionID
            /\ codec.res.f.Data = << >>
            /\ Remaining(codec.r)
                 = DropN(CodecBytes, 2 + VarintLen(codec.f.SessionID))

\* The bytes Frame.Read has taken from the reader.
CodecConsumed == Len(CodecBytes) - Len(Remaining(codec.r))

\* C24: Frame.Read of a frame of another type than WEBTRANSPORT_STREAM with
\* declared length L returns no error only when exactly L payload bytes
\* were read into the frame; when the reader delivers fewer, in one Read
\* call or because the stream ends, it returns an error.
C24_ReadFillsPayloadOrFails ==
    (/\ codec.pc = "read"
     /\ codec.f.Type # FRAME_WEBTRANSPORT_STREAM
     /\ codec.res.err = "nil")
    => LET hdr == VarintLen(codec.f.Type) + VarintLen(codec.f.Length)
       IN  /\ CodecConsumed = hdr + codec.f.Length
           /\ codec.res.f.Data = SubSeq(CodecBytes, hdr + 1, hdr + codec.f.Length)

\* ----------------------------------------------------------- settings codec

\* The ids and values of the settings maps handed to ToFrame: ids and values
\* with varints of one, two and four bytes.
SettingIds == { SETTINGS_MAX_FIELD_SECTION_SIZE, H3_DATAGRAM_05, ENABLE_WEBTRANSPORT }
SettingValues == { 1, 64 }

SettingsMaps ==
    UNION { [ids -> SettingValues] : ids \in SUBSET SettingIds }

\* Payloads that repeat an id: with the same value, with another, and with
\* the id in a longer encoding the second time.
DuplicatePayloads ==
    { << 6, 1, 6, 1 >>, << 6, 1, 7, 1, 6, 2 >>, << 6, 1, 64, 6, 2 >> }

\* Payloads that end inside a pair: after the id, inside the id, inside the
\* value.
TruncatedPayloads ==
    { << 6 >>, << 6, 1, 7 >>, << 128, 255, 210 >>, << 6, 64 >> }

\* The SETTINGS frames a peer may send: good ones, with the largest Length
\* FromFrame lets pass and with a larger one, and malformed ones.
PeerSettingsFrames ==
    { Frame(FRAME_SETTINGS, 0, l, << 6, 1, 7, 64, 64 >>) :
        l \in { 5, SettingsMaxLength, SettingsMaxLength + 1 } }
    \cup { Frame(FRAME_SETTINGS, 0, Len(d), d) :
             d \in DuplicatePayloads \cup TruncatedPayloads \cup { << >> } }

\* m.ToFrame(), the range over the map taking one of its orders.
CodecToFrame ==
    /\ codec.sm.pc = "new"
    /\ \E o \in KeyOrders(codec.sm.m) :
         codec' = [codec EXCEPT !.sm.pc = "framed", !.sm.f = ToFrame(codec.sm.m, o)]
    /\ UNCHANGED << srv, pc, allowedOrigins, ioLog, srvCtrl, clientCtrl, reqIn, sessionId,
                    req, handlerInvoked, watcher, respVars, accepted, streamVars >>

\* s.FromFrame(f) on an empty map s.
CodecFromFrame ==
    /\ codec.sm.pc = "framed"
    /\ codec' = [codec EXCEPT !.sm.pc = "done",
                              !.sm.res = FromFrame(EmptySettings, codec.sm.f)]
    /\ UNCHANGED << srv, pc, allowedOrigins, ioLog, srvCtrl, clientCtrl, reqIn, sessionId,
                    req, handlerInvoked, watcher, respVars, accepted, streamVars >>

InitSettings ==
    /\ srv = RunServing
    /\ Unstarted
    /\ allowedOrigins = [isNil |-> TRUE, hosts |-> {}]
    /\ \/ \E m \in SettingsMaps :
            codec = [NoCodec EXCEPT !.sm.pc = "new", !.sm.src = "map", !.sm.m = m]
       \/ \E f \in PeerSettingsFrames :
            codec = [NoCodec EXCEPT !.sm.pc = "framed", !.sm.src = "frame", !.sm.f = f]

NextSettings ==
    \/ CodecToFrame
    \/ CodecFromFrame

\* A settings map is made a frame by ToFrame; a frame, made by ToFrame or
\* sent by the peer, is read by FromFrame into an empty map.
SpecSettings == InitSettings /\ [][NextSettings]_vars

\* C22: FromFrame of ToFrame(m) into an empty map gives exactly the pairs of
\* m, and the frame's Length is the number of bytes of its payload;
\* FromFrame fails on a payload that repeats an id, on one that ends inside
\* a pair, and on a frame whose Length is above 8192.
C22_SettingsRoundTrip ==
    LET sm == codec.sm
    IN  /\ (sm.src = "map" /\ sm.pc \in { "framed", "done" }) =>
              /\ sm.f.Type = FRAME_SETTINGS
              /\ sm.f.Length = Len(sm.f.Data)
              /\ Len(sm.f.Data) <= 8192
        /\ (sm.src = "map" /\ sm.pc = "done") =>
              (sm.res.err = "nil" /\ sm.res.s = sm.m)
        /\ (sm.src = "frame" /\ sm.pc = "done") =>
              /\ sm.f.Data \in DuplicatePayloads => sm.res.err = "duplicate"
              /\ sm.f.Data \in TruncatedPayloads => sm.res.err = "EOF"
              /\ sm.f.Length > 8192 => sm.res.err = "size"
              /\ (sm.f.Length <= 8192 /\ sm.f.Data = << 6, 1, 7, 64, 64 >>) =>
                    (sm.res.err = "nil" /\ sm.res.s = [k \in { 6, 7 } |-> IF k = 6 THEN 1 ELSE 64])

\* The map of three settings, with ids and values of one, two and four
\* bytes, has come back from its frame.
C22_Witness ==
    /\ codec.sm.src = "map" /\ codec.sm.pc = "done"
    /\ DOMAIN codec.sm.m = SettingIds
    /\ codec.sm.m[H3_DATAGRAM_05] = 64 /\ codec.sm.m[ENABLE_WEBTRANSPORT] = 1
    /\ codec.sm.res = [err |-> "nil", s |-> codec.sm.m]
    /\ codec.sm.f.Length = 13

\* ---------------------------------------------------------------------
\* Server.Run: the listener loop
\* ---------------------------------------------------------------------

\* The connections that reach the listener in one behaviour.
MaxConns == 3

\* Run is called: nothing is listening yet.
RunCalled ==
    [run |-> "start", err |-> "none", ctxDone |-> FALSE, listener |-> "none",
     broken |-> FALSE, queue |-> 0, arrived |-> 0, closer |-> "none", spawned |-> 0]

\* Run up to its loop: makeTLSConfig or quic.ListenAddr fails and Run returns
\* the error, or the listener is open and the closing task is started.
RunStarts ==
    /\ srv.run = "start"
    /\ \E res \in { "ok", "tls", "listen" } :
          srv' = IF res = "ok"
                 THEN [srv EXCEPT !.run = "listening", !.listener = "open",
                                  !.closer = "waiting"]
                 ELSE [srv EXCEPT !.run = "returned", !.err = res]
    /\ UNCHANGED << codec, pc, allowedOrigins, ioLog, srvCtrl, clientCtrl, reqIn, sessionId,
                    req, handlerInvoked, watcher, respVars, accepted, streamVars >>

\* The caller cancels the context it gave to Run.
CancelRun ==
    /\ ~srv.ctxDone
    /\ srv' = [srv EXCEPT !.ctxDone = TRUE]
    /\ UNCHANGED << codec, pc, allowedOrigins, ioLog, srvCtrl, clientCtrl, reqIn, sessionId,
                    req, handlerInvoked, watcher, respVars, accepted, streamVars >>

\* The closing task: <-ctx.Done(), then listener.Close().
CloserCloses ==
    /\ srv.closer = "waiting"
    /\ srv.ctxDone
    /\ srv' = [srv EXCEPT !.closer = "done", !.listener = "closed"]
    /\ UNCHANGED << codec, pc, allowedOrigins, ioLog, srvCtrl, clientCtrl, reqIn, sessionId,
                    req, handlerInvoked, watcher, respVars, accepted, streamVars >>

\* A client's connection completes its handshake and waits in the open listener.
ConnectionArrives ==
    /\ srv.listener = "open"
    /\ ~srv.broken
    /\ srv.arrived < MaxConns
    /\ srv' = [srv EXCEPT !.arrived = @ + 1, !.queue = @ + 1]
    /\ UNCHANGED << codec, pc, allowedOrigins, ioLog, srvCtrl, clientCtrl, reqIn, sessionId,
                    req, handlerInvoked, watcher, respVars, accepted, streamVars >>

\* The listener's socket fails.
ListenerBreaks ==
    /\ srv.listener = "open"
    /\ ~srv.broken
    /\ srv' = [srv EXCEPT !.broken = TRUE]
    /\ UNCHANGED << codec, pc, allowedOrigins, ioLog, srvCtrl, clientCtrl, reqIn, sessionId,
                    req, handlerInvoked, watcher, respVars, accepted, streamVars >>

\* The error listener.Accept(ctx) can return now: Accept selects among the
\* context, the waiting connections and the listener's error.
AcceptErrors ==
    (IF srv.ctxDone THEN { "canceled" } ELSE { })
    \cup (IF srv.listener = "closed" THEN { "closed" } ELSE { })
    \cup (IF srv.broken THEN { "broken" } ELSE { })

\* One turn of the loop with a connection: go s.handleSession(ctx, sess).
RunAccepts ==
    /\ srv.run = "listening"
    /\ srv.queue > 0
    /\ srv' = [srv EXCEPT !.queue = @ - 1, !.spawned = @ + 1]
    /\ UNCHANGED << codec, pc, allowedOrigins, ioLog, srvCtrl, clientCtrl, reqIn, sessionId,
                    req, handlerInvoked, watcher, respVars, accepted, streamVars >>

\* A loop that goes on after an error of Accept.
RunAcceptGoesOn ==
    /\ srv.run = "listening"
    /\ AcceptErrors # { }
    /\ UNCHANGED vars

\* One turn of the loop with an error: return err.
RunAcceptFails ==
    /\ srv.run = "listening"
    /\ \E e \in AcceptErrors : srv' = [srv EXCEPT !.run = "returned", !.err = e]
    /\ UNCHANGED << codec, pc, allowedOrigins, ioLog, srvCtrl, clientCtrl, reqIn, sessionId,
                    req, handlerInvoked, watcher, respVars, accepted, streamVars >>

InitRun ==
    /\ srv = RunCalled
    /\ codec = NoCodec
    /\ Unstarted

NextRun ==
    \/ RunStarts
    \/ CancelRun
    \/ CloserCloses
    \/ ConnectionArrives
    \/ ListenerBreaks
    \/ RunAccepts
    \/ RunAcceptFails

SpecRun == InitRun /\ [][NextRun]_vars

\* Run and the closing task are tasks of the Go scheduler: each runs when it can.
FairSpecRun ==
    /\ SpecRun
    /\ WF_vars(RunStarts)
    /\ WF_vars(RunAccepts \/ RunAcceptFails)
    /\ WF_vars(CloserCloses)

\* Once the caller's context is cancelled, Run eventually has returned
\* and no listener is left open.
C23_RunTerminates ==
    srv.ctxDone ~> (srv.run = "returned" /\ srv.listener # "open")

\* An error of Accept makes Run return that error, and once Run has
\* returned no further handleSession is started.
C23_AcceptErrorEndsLoop ==
    [][/\ (srv.run = "listening" /\ srv'.run = "returned")
          => (srv'.err \in AcceptErrors /\ srv'.spawned = srv.spawned)
       /\ srv.run = "returned"
          => (srv'.run = "returned" /\ srv'.err = srv.err /\ srv'.spawned = srv.spawned)]_vars

\* C23: the listener loop in Run terminates: after the caller's context is
\* cancelled the listener is closed and Run eventually returns, and an error of
\* Accept makes Run return that error without starting another handleSession.
C23_ListenerLoopTerminates ==
    C23_RunTerminates /\ C23_AcceptErrorEndsLoop

\* Run has returned the cancellation after starting a handleSession, and the
\* listener is closed.
C23_Witness ==
    /\ srv.run = "returned"
    /\ srv.err = "canceled"
    /\ srv.spawned > 0
    /\ srv.listener = "closed"

\* C25: for a received datagram that begins with a valid varint, in its
\* shortest or in a longer encoding, ReceiveDatagram returns exactly the bytes
\* that follow the varint: it strips as many bytes as the varint occupies.
C25_ReceiveStripsTheVarintRead ==
    (rcv.pc = "idle" /\ rcv.hasDg /\ rcv.ret.err = "nil")
    => /\ FirstVarint(rcv.raw).err = "nil"
       /\ rcv.ret.msg = DropN(rcv.raw, FirstVarint(rcv.raw).n)

\* C26: when DataStream returns the request stream, every byte written
\* through the response writer before (HEADERS and DATA frames) has been
\* flushed to that stream, nothing of it staying in the buffer, so that what
\* the caller writes on the stream comes after it; unless the stream's Write
\* failed, after which no byte reaches the peer on this stream.
C26_DataStreamFlushesFirst ==
    [][Returned("DataStream") =>
          /\ rw'.dataStreamUsed
          /\ IsPrefix(reqStream.wire, reqStream'.wire)
          /\ ~reqStream'.failed =>
                (rw'.buf = << >> /\ reqStream'.wire = Emitted)]_vars

\* Write(<<7>>) then DataStream: the HEADERS frame with :status 200 (and the
\* draft header handleSession set) and the DATA frame went to the request stream in the one Write DataStream's flush
\* made.
C26_Witness ==
    /\ rwRet.op = "DataStream" /\ ncalls = 2 /\ rw.dataStreamUsed
    /\ Len(reqStream.calls) = 1
    /\ reqStream.wire = << 1, 4, 0, 0, 19, 15, 0, 1, 7 >> /\ rw.buf = << >>

\* C27: the helper task ReceiveDatagram starts always ends, also when the
\* caller's context is cancelled and ReceiveDatagram has returned
\* ErrSTreamClosed: it is never left sending its result on the channel.
C27_HelperTerminates ==
    (rcv.helper \in { "recv", "send" } /\ CtxDone(rcv.ctx)) ~> (rcv.helper = "done")

\* C28: openStream never returns a nil error together with a stream it has
\* closed: when the Write of the WEBTRANSPORT_STREAM | session_id prefix on
\* the new stream fails, the stream is closed and the caller gets an error.
C28_NoClosedStreamWithNilError ==
    \A i \in DOMAIN out.bidi :
        LET o == out.bidi[i]
        IN  /\ o.err = "nil" => ~o.stream.closed
            /\ (o.stream.calls # << >> /\ ~o.stream.calls[1].ok)
                   => (o.stream.closed /\ o.err # "nil")

====
